---- MODULE Spec2Model ----
(***************************************************************************)
(* PKOD vehicle counting loop (src/PKOD1): identity resolver, crossing     *)
(* state machine, visibility state machine and occupancy ledger, modelled  *)
(* as one state machine whose steps are the phases of the frame loop of    *)
(* main.py.                                                                *)
(*                                                                         *)
(* Conventions                                                             *)
(*   - Python None is the string "None" where the value is a string and    *)
(*     the record None where it is a record; an absent dict key is a key   *)
(*     that is not in the DOMAIN of the function that models the dict.     *)
(*   - A file is NoFile (absent), CorruptFile (unreadable JSON) or the     *)
(*     record of its fields.                                               *)
(*   - A position is <<x, y>>, a box is <<x1, y1, x2, y2>>.                *)
(*   - np.median of integers may end in .5: Median2 is twice the median    *)
(*     and is compared with twice the line.                                *)
(*   - time.time() is the integer clock `now` (seconds).                   *)
(***************************************************************************)
EXTENDS Integers, Sequences, FiniteSets, TLC

(***************************************************************************)
(* config.py                                                               *)
(***************************************************************************)
MAX_CAPACITY == 80
LINE_X1 == 250
LINE_Y == 370
LINE_X2 == 1100
TRACK_BUFFER == 90
REID_HISTORY_SIZE == 30
DETECTED_MIN_FRAMES == 5
ARM_MIN_FRAMES == 3
CONFIRM_FRAMES == 2
MIN_DISPLACEMENT == 30
PRE_ZONE_PIXELS == 80
DIRECTION_STABLE_FRAMES == 4
WARMUP_SECS == 6
OCCUPANCY_AUDIT_LIMIT == 200
LOST_BUFFER_SECS == 2
MAX_REASSOC_DISTANCE == 200
ROI_X1 == 708
ROI_Y1 == 396
ROI_X2 == 1071
ROI_Y2 == 608
MIN_STABLE_FRAMES == 0
(* roi_observer.py defaults taken with getattr(config, ..., default) *)
PLATE_ROI_MARGIN == 12
ROI_MISSED_TOLERANCE == 3
(* main.py *)
MAX_MISSING == 15
STALE_SECS == 10

(***************************************************************************)
(* Generic helpers                                                         *)
(***************************************************************************)
Abs(n) == IF n < 0 THEN -n ELSE n
Max(a, b) == IF a >= b THEN a ELSE b
Min(a, b) == IF a <= b THEN a ELSE b

\* Python s[-n:]
LastN(s, n) ==
  IF Len(s) <= n THEN s ELSE SubSeq(s, Len(s) - n + 1, Len(s))

\* k-th smallest element of a non-empty integer sequence
Kth(s, k) ==
  CHOOSE v \in {s[i] : i \in 1..Len(s)} :
    /\ Cardinality({i \in 1..Len(s) : s[i] < v}) < k
    /\ k <= Cardinality({i \in 1..Len(s) : s[i] <= v})

\* twice np.median(s), s non-empty
Median2(s) ==
  IF Len(s) % 2 = 1
  THEN 2 * Kth(s, (Len(s) + 1) \div 2)
  ELSE Kth(s, Len(s) \div 2) + Kth(s, Len(s) \div 2 + 1)

\* [p[1] for p in hist]
Ys(hist) == [i \in 1..Len(hist) |-> hist[i][2]]

(***************************************************************************)
(* events/event_manager.py : VehicleEventManager                           *)
(***************************************************************************)
NewCrossingState(frame_idx) ==
  [state |-> "DETECTED", first_seen |-> frame_idx, last_seen |-> frame_idx,
   approach_dir |-> "None", approach_frames |-> 0, arm_frames |-> 0,
   cross_frame |-> 0, confirmed_frames |-> 0, finalized |-> {}]

_movement_vector(ys) ==
  IF Len(ys) < 2 THEN 0 ELSE ys[Len(ys)] - ys[1]

\* the DETECTED branch
ProcessDetected(st, ys) ==
  IF Len(ys) >= DETECTED_MIN_FRAMES
  THEN LET w == LastN(ys, DETECTED_MIN_FRAMES)
           mv == _movement_vector(w)
       IN IF Abs(mv) >= 2
          THEN IF mv < 0 /\ Median2(w) > 2 * LINE_Y
               THEN [st EXCEPT !.approach_dir = "up", !.state = "APPROACHING"]
               ELSE IF mv > 0 /\ Median2(w) < 2 * LINE_Y
                    THEN [st EXCEPT !.approach_dir = "down", !.state = "APPROACHING"]
                    ELSE st
          ELSE st
  ELSE st

\* the APPROACHING branch arming on the first approach frame
ProcessApproaching_ArmsAtOnce(st, center_y, ys) ==
  LET dists == [i \in 1..Len(LastN(ys, DIRECTION_STABLE_FRAMES)) |->
                   Abs(LastN(ys, DIRECTION_STABLE_FRAMES)[i] - LINE_Y)]
      af == IF Len(ys) >= 2
            THEN IF Len(dists) >= 2 /\ dists[Len(dists)] < dists[1]
                 THEN st.approach_frames + 1
                 ELSE Max(0, st.approach_frames - 1)
            ELSE st.approach_frames
      st1 == [st EXCEPT !.approach_frames = af]
  IN IF af >= 1 /\ Abs(center_y - LINE_Y) <= PRE_ZONE_PIXELS
     THEN [st1 EXCEPT !.state = "ARMED", !.arm_frames = 0]
     ELSE st1

\* the APPROACHING branch
ProcessApproaching(st, center_y, ys) ==
  LET dists == [i \in 1..Len(LastN(ys, DIRECTION_STABLE_FRAMES)) |->
                   Abs(LastN(ys, DIRECTION_STABLE_FRAMES)[i] - LINE_Y)]
      af == IF Len(ys) >= 2
            THEN IF Len(dists) >= 2 /\ dists[Len(dists)] < dists[1]
                 THEN st.approach_frames + 1
                 ELSE Max(0, st.approach_frames - 1)
            ELSE st.approach_frames
      st1 == [st EXCEPT !.approach_frames = af]
  IN IF af >= ARM_MIN_FRAMES /\ Abs(center_y - LINE_Y) <= PRE_ZONE_PIXELS
     THEN [st1 EXCEPT !.state = "ARMED", !.arm_frames = 0]
     ELSE st1

\* the ARMED branch; hist is pos_history[-DIRECTION_STABLE_FRAMES:]
ProcessArmed(st, center_y, hist, frame_idx) ==
  LET st1 == [st EXCEPT !.arm_frames = @ + 1]
      medAbove == Len(hist) > 0 /\ Median2(hist) < 2 * LINE_Y
      medBelow == Len(hist) > 0 /\ Median2(hist) > 2 * LINE_Y
  IN IF st1.approach_dir = "up" /\ center_y < LINE_Y /\ medBelow
     THEN [st1 EXCEPT !.state = "CROSSED", !.cross_frame = frame_idx]
     ELSE IF st1.approach_dir = "down" /\ center_y > LINE_Y /\ medAbove
          THEN [st1 EXCEPT !.state = "CROSSED", !.cross_frame = frame_idx]
          ELSE IF 2 * Abs(center_y - LINE_Y) > 3 * PRE_ZONE_PIXELS
               THEN [st1 EXCEPT !.state = "APPROACHING", !.approach_frames = 0]
               ELSE st1

\* the CROSSED branch naming the event after the side the vehicle came from
ProcessCrossed_Swapped(st, center_y, ys) ==
  LET intended == IF st.approach_dir = "up" THEN "exit" ELSE "entry"
      delta == IF st.approach_dir = "up" THEN LINE_Y - center_y
               ELSE center_y - LINE_Y
      cf == IF delta >= MIN_DISPLACEMENT THEN st.confirmed_frames + 1 ELSE 0
      st1 == [st EXCEPT !.confirmed_frames = cf]
      tail == LastN(ys, CONFIRM_FRAMES)
      side_flags == [i \in 1..Len(tail) |-> IF tail[i] < LINE_Y THEN 1 ELSE 0]
      side_consistent ==
        IF Len(side_flags) >= CONFIRM_FRAMES
        THEN \A i \in 1..Len(side_flags) : side_flags[i] = side_flags[1]
        ELSE FALSE
  IN IF cf >= CONFIRM_FRAMES /\ side_consistent
     THEN [st |-> [st1 EXCEPT !.state = "FINALIZED",
                              !.finalized = @ \cup {intended}],
           evt |-> intended]
     ELSE IF \/ st1.approach_dir = "up" /\ center_y > LINE_Y
             \/ st1.approach_dir = "down" /\ center_y < LINE_Y
          THEN [st |-> [st1 EXCEPT !.state = "ARMED", !.confirmed_frames = 0],
                evt |-> "None"]
          ELSE [st |-> st1, evt |-> "None"]

\* the CROSSED branch: returns the new state and the event
\* the CROSSED step finalizing on the first observation beyond the line
ProcessCrossed_OneFrame(st, center_y, ys) ==
  LET intended == IF st.approach_dir = "up" THEN "entry" ELSE "exit"
      delta == IF st.approach_dir = "up" THEN LINE_Y - center_y
               ELSE center_y - LINE_Y
      cf == IF delta >= MIN_DISPLACEMENT THEN st.confirmed_frames + 1 ELSE 0
      st1 == [st EXCEPT !.confirmed_frames = cf]
  IN IF cf >= 1
     THEN [st |-> [st1 EXCEPT !.state = "FINALIZED",
                              !.finalized = @ \cup {intended}],
           evt |-> intended]
     ELSE IF \/ st1.approach_dir = "up" /\ center_y > LINE_Y
             \/ st1.approach_dir = "down" /\ center_y < LINE_Y
          THEN [st |-> [st1 EXCEPT !.state = "ARMED", !.confirmed_frames = 0],
                evt |-> "None"]
          ELSE [st |-> st1, evt |-> "None"]

ProcessCrossed(st, center_y, ys) ==
  LET intended == IF st.approach_dir = "up" THEN "entry" ELSE "exit"
      delta == IF st.approach_dir = "up" THEN LINE_Y - center_y
               ELSE center_y - LINE_Y
      cf == IF delta >= MIN_DISPLACEMENT THEN st.confirmed_frames + 1 ELSE 0
      st1 == [st EXCEPT !.confirmed_frames = cf]
      tail == LastN(ys, CONFIRM_FRAMES)
      side_flags == [i \in 1..Len(tail) |-> IF tail[i] < LINE_Y THEN 1 ELSE 0]
      side_consistent ==
        IF Len(side_flags) >= CONFIRM_FRAMES
        THEN \A i \in 1..Len(side_flags) : side_flags[i] = side_flags[1]
        ELSE FALSE
  IN IF cf >= CONFIRM_FRAMES /\ side_consistent
     THEN [st |-> [st1 EXCEPT !.state = "FINALIZED",
                              !.finalized = @ \cup {intended}],
           evt |-> intended]
     ELSE IF \/ st1.approach_dir = "up" /\ center_y > LINE_Y
             \/ st1.approach_dir = "down" /\ center_y < LINE_Y
          THEN [st |-> [st1 EXCEPT !.state = "ARMED", !.confirmed_frames = 0],
                evt |-> "None"]
          ELSE [st |-> st1, evt |-> "None"]

\* ProcessState returning the finalized direction again on every later
\* observation of a FINALIZED id
ProcessState_Repeats(st0, center_y, pos_history, frame_idx) ==
  LET st == [st0 EXCEPT !.last_seen = frame_idx]
      ys == Ys(pos_history)
      hist == LastN(ys, DIRECTION_STABLE_FRAMES)
  IN IF "entry" \in st.finalized /\ "exit" \in st.finalized
     THEN [st |-> st, evt |-> "None"]
     ELSE CASE st.state = "DETECTED" ->
                 [st |-> ProcessDetected(st, ys), evt |-> "None"]
            [] st.state = "APPROACHING" ->
                 [st |-> ProcessApproaching(st, center_y, ys), evt |-> "None"]
            [] st.state = "ARMED" ->
                 [st |-> ProcessArmed(st, center_y, hist, frame_idx), evt |-> "None"]
            [] st.state = "CROSSED" -> ProcessCrossed(st, center_y, ys)
            [] OTHER -> [st |-> st,
                         evt |-> IF st.approach_dir = "up" THEN "entry" ELSE "exit"]

\* VehicleEventManager.process on the per-id record st (after setdefault)
ProcessState(st0, center_y, pos_history, frame_idx) ==
  LET st == [st0 EXCEPT !.last_seen = frame_idx]
      ys == Ys(pos_history)
      hist == LastN(ys, DIRECTION_STABLE_FRAMES)
  IN IF "entry" \in st.finalized /\ "exit" \in st.finalized
     THEN [st |-> st, evt |-> "None"]
     ELSE CASE st.state = "DETECTED" ->
                 [st |-> ProcessDetected(st, ys), evt |-> "None"]
            [] st.state = "APPROACHING" ->
                 [st |-> ProcessApproaching(st, center_y, ys), evt |-> "None"]
            [] st.state = "ARMED" ->
                 [st |-> ProcessArmed(st, center_y, hist, frame_idx), evt |-> "None"]
            [] st.state = "CROSSED" -> ProcessCrossed(st, center_y, ys)
            [] OTHER -> [st |-> st, evt |-> "None"]

\* VehicleEventManager.process: self_state is the dict track_id -> record
process(self_state, track_id, center_y, pos_history, frame_idx) ==
  LET st0 == IF track_id \in DOMAIN self_state THEN self_state[track_id]
             ELSE NewCrossingState(frame_idx)
      r == ProcessState(st0, center_y, pos_history, frame_idx)
  IN [state |-> [k \in DOMAIN self_state \cup {track_id} |->
                    IF k = track_id THEN r.st ELSE self_state[k]],
      evt |-> r.evt]

(***************************************************************************)
(* State                                                                   *)
(***************************************************************************)
VARIABLES
  pc,                 \* position of the frame loop of main.py
  frame_count,        \* main.py frame_count
  now,                \* time.time()
  warmup_end,         \* main.py warmup_end
  occupancy, entry_count, exit_count, frozen,   \* main.py ledger
  updated,            \* main.py: last result flag of check_admin_commands
  command_file,       \* config.COMMAND_FILE
  state_file,         \* config.OCCUPANCY_STATE_FILE
  db_up,              \* db.connection.get_conn() returns a connection
  db,                 \* remote store: the tables of db/repository.py
  ocr_jobs,           \* the metadata.json files under ocr_jobs/, in creation order
  em_state, counted,  \* VehicleEventManager.state / .counted
  feature_history, position_history, lost_tracks, id_mapping,  \* VehicleTracker
  buffer,             \* TrackletBuffer.buffer
  vehicle_states, missing_frames,               \* main.py lifecycle table
  dets,               \* detections of the current frame not yet handled
  current_frame_ids, observer_tasks,            \* main.py per-frame lists
  key,                \* cv.waitKey result of the current frame
  ext,                \* what the upstream tracker last reported per provisional id
  used,               \* how many commands, keys and faults the environment has
                      \* issued so far
  tally,              \* history: per canonical id, the events process returned
                      \* for it, the increments it caused, and the calls of
                      \* process made for it
  startup,            \* history: the occupancy read at load, and whether a
                      \* RESET_SYSTEM or SET_OCCUPANCY has been applied since
  obs,                \* history: what the last step did
  vs_cache,           \* occupancy_store._vehicle_states_cache
  lost_log,           \* history: per id, how often add_lost stored it and how
                      \* often reassociate returned it
  absence,            \* history: the ids of the last finished frame, those that
                      \* left in it, and per absent id the time of its first
                      \* frame of absence
  job_dir,            \* ocr_jobs/: per job its folder (under ocr_jobs/ or under
                      \* ocr_jobs/processed/) and its metadata.json
  producer,           \* position of a fire_ocr_job call in progress
  consumer,           \* ocr_processor.py: position, pending_jobs, current result
  results_file,       \* ocr_results.jsonl
  ocr_rows,           \* remote table ocr_results, rows written by the consumer
  ocr_log,            \* history of the consumer: jobs processed, jobs skipped
                      \* as processed, metadata read while being written
  loaded_cmd          \* check_admin_commands: what json.load returned, while
                      \* the call is between its read and its os.remove

ledgerVars == <<occupancy, entry_count, exit_count, frozen, updated>>
fileVars == <<command_file, state_file, db_up, db, ocr_jobs>>
emVars == <<em_state, counted>>
trackerVars == <<feature_history, position_history, lost_tracks, id_mapping, buffer>>
lifeVars == <<vehicle_states, missing_frames>>
frameVars == <<dets, current_frame_ids, observer_tasks, key>>
storeVars == <<vs_cache>>
histVars == <<lost_log, absence>>
adminVars == <<loaded_cmd>>
ocrVars == <<job_dir, producer, consumer, results_file, ocr_rows, ocr_log>>
vars == <<pc, frame_count, now, warmup_end, ledgerVars, fileVars, emVars,
          trackerVars, lifeVars, frameVars, ext, used, tally, startup, obs, storeVars, histVars,
          ocrVars, adminVars>>

EmptyFn == [x \in {} |-> 0]
None == [none |-> TRUE]
NoFile == [absent |-> TRUE]
CorruptFile == [corrupt |-> TRUE]

(***************************************************************************)
(* state/occupancy_store.py and db/repository.py                           *)
(***************************************************************************)
IsRecordFile(f) == f # NoFile /\ f # CorruptFile

Clamp(v) == Max(0, Min(v, MAX_CAPACITY))

\* db.load_occupancy_from_db: None when unreachable or when no row exists
load_occupancy_from_db(up, d) ==
  IF up /\ d.snapshot # None
  THEN [occ |-> d.snapshot.occupancy, ent |-> d.snapshot.entry_count,
        ex |-> d.snapshot.exit_count, last |-> d.snapshot.last_update]
  ELSE None

\* load_occupancy: <<occupancy, entry_count, exit_count, last_update>>
load_occupancy(up, d, f) ==
  LET result == load_occupancy_from_db(up, d)
  IN IF result # None
     THEN <<Clamp(result.occ), result.ent, result.ex, result.last>>
     ELSE IF IsRecordFile(f)
          THEN <<Clamp(f.occupancy), f.entry_count, f.exit_count, f.last_update>>
          ELSE <<0, 0, 0, 0>>

\* load_vehicle_states: id -> [has_entered, has_exited]
load_vehicle_states(up, d, f) ==
  IF up THEN d.vehicle_states
  ELSE IF IsRecordFile(f) THEN f.vehicle_states ELSE EmptyFn

\* save_vehicle_states: the local record with its vehicle_states replaced; the
\* keys a missing or unreadable record lacks are written as the defaults their
\* readers take with data.get (load_occupancy, save_occupancy)
save_vehicle_states(f, states, t) ==
  IF IsRecordFile(f)
  THEN [f EXCEPT !.vehicle_states = states]
  ELSE [occupancy |-> 0, entry_count |-> 0, exit_count |-> 0, last_update |-> t,
        reason |-> "None", max_capacity |-> MAX_CAPACITY, audit |-> <<>>,
        vehicle_states |-> states]

\* the cache after its load on first access
LoadedCache(cache, up, d, f) ==
  IF cache = None THEN [table |-> load_vehicle_states(up, d, f)] ELSE cache

\* update_vehicle_state without its exit-before-entry test
update_vehicle_state_Unchecked(cache, up, d, f, track_id, has_entered, has_exited, t) ==
  LET c0 == LoadedCache(cache, up, d, f)
      cur == IF track_id \in DOMAIN c0.table THEN c0.table[track_id]
             ELSE [has_entered |-> FALSE, has_exited |-> FALSE]
      new_entered == IF has_entered = <<>> THEN cur.has_entered ELSE has_entered[1]
      new_exited == IF has_exited = <<>> THEN cur.has_exited ELSE has_exited[1]
      table == [id \in DOMAIN c0.table \cup {track_id} |->
                  IF id = track_id
                  THEN [has_entered |-> new_entered, has_exited |-> new_exited]
                  ELSE c0.table[id]]
  IN [cache |-> [table |-> table], raised |-> FALSE,
      state_file |-> save_vehicle_states(f, table, t)]

\* update_vehicle_state: has_entered / has_exited are <<>> for None and <<b>>
\* for a value; raised tells that ValueError left the function
update_vehicle_state(cache, up, d, f, track_id, has_entered, has_exited, t) ==
  LET c0 == LoadedCache(cache, up, d, f)
      cur == IF track_id \in DOMAIN c0.table THEN c0.table[track_id]
             ELSE [has_entered |-> FALSE, has_exited |-> FALSE]
      new_entered == IF has_entered = <<>> THEN cur.has_entered ELSE has_entered[1]
      new_exited == IF has_exited = <<>> THEN cur.has_exited ELSE has_exited[1]
      table == [id \in DOMAIN c0.table \cup {track_id} |->
                  IF id = track_id
                  THEN [has_entered |-> new_entered, has_exited |-> new_exited]
                  ELSE c0.table[id]]
  IN IF new_exited /\ ~new_entered
     THEN [cache |-> c0, raised |-> TRUE, state_file |-> f]
     ELSE [cache |-> [table |-> table], raised |-> FALSE,
           state_file |-> save_vehicle_states(f, table, t)]

\* the id/has_entered/has_exited projection save_occupancy writes
LifecycleView(vs) ==
  [id \in DOMAIN vs |->
     [has_entered |-> vs[id].has_entered, has_exited |-> vs[id].has_exited]]

\* save_occupancy cutting the audit list at its newest end
SavedRecord_KeepsOldest(f, occ, ent, ex, reason, vs, t) ==
  LET clamped_occ == Clamp(occ)
      reasonOut == IF reason = "None" THEN "event" ELSE reason
      audit0 == IF IsRecordFile(f) THEN f.audit ELSE <<>>
      audit1 == Append(audit0, [ts |-> t, occupancy |-> clamped_occ, reason |-> reasonOut])
  IN [occupancy |-> clamped_occ, entry_count |-> ent, exit_count |-> ex,
      last_update |-> t, reason |-> reasonOut, max_capacity |-> MAX_CAPACITY,
      audit |-> SubSeq(audit1, 1, Min(Len(audit1), OCCUPANCY_AUDIT_LIMIT)),
      vehicle_states |-> IF vs # None THEN LifecycleView(vs.list)
                         ELSE IF IsRecordFile(f) THEN f.vehicle_states ELSE EmptyFn]

\* the local record save_occupancy writes; vs is None or [list |-> table]
SavedRecord(f, occ, ent, ex, reason, vs, t) ==
  LET clamped_occ == Clamp(occ)
      reasonOut == IF reason = "None" THEN "event" ELSE reason
      audit0 == IF IsRecordFile(f) THEN f.audit ELSE <<>>
      audit1 == Append(audit0, [ts |-> t, occupancy |-> clamped_occ, reason |-> reasonOut])
  IN [occupancy |-> clamped_occ, entry_count |-> ent, exit_count |-> ex,
      last_update |-> t, reason |-> reasonOut, max_capacity |-> MAX_CAPACITY,
      audit |-> LastN(audit1, OCCUPANCY_AUDIT_LIMIT),
      vehicle_states |-> IF vs # None THEN LifecycleView(vs.list)
                         ELSE IF IsRecordFile(f) THEN f.vehicle_states ELSE EmptyFn]

\* db.update_occupancy (frozen keeps its default False) and save_vehicle_states_bulk
SavedDb(up, d, occ, ent, ex, reason, vs, t) ==
  IF ~up THEN d
  ELSE [d EXCEPT
        !.snapshot = [occupancy |-> Clamp(occ), entry_count |-> ent,
                      exit_count |-> ex, max_capacity |-> MAX_CAPACITY,
                      last_update |-> t, frozen |-> FALSE],
        !.audit_log = Append(@, [occupancy |-> Clamp(occ),
                                 reason |-> IF reason = "None" THEN "event" ELSE reason,
                                 timestamp |-> t]),
        !.vehicle_states =
          IF vs = None THEN d.vehicle_states
          ELSE [id \in DOMAIN d.vehicle_states \cup DOMAIN vs.list |->
                  IF id \in DOMAIN vs.list THEN LifecycleView(vs.list)[id]
                  ELSE d.vehicle_states[id]]]

\* db.log_vehicle_event
log_vehicle_event(up, d, track_id, event_type, occ, t) ==
  IF ~up THEN d
  ELSE [d EXCEPT !.vehicle_events =
          Append(@, [track_id |-> track_id, event_type |-> event_type,
                     occupancy |-> occ, timestamp |-> t])]

\* db.clear_vehicle_states
clear_vehicle_states(up, d) ==
  IF ~up THEN d ELSE [d EXCEPT !.vehicle_states = EmptyFn]

\* save_occupancy: the two stores after the call
save_occupancy(f, up, d, occ, ent, ex, reason, vs, t) ==
  [state_file |-> SavedRecord(f, occ, ent, ex, reason, vs, t),
   db |-> SavedDb(up, d, occ, ent, ex, reason, vs, t)]

\* check_admin_commands whose FORCE_FULL fills the ledger without freezing it
check_admin_commands_ForceFullCounts(cmd, occ, ent, ex, frz, t) ==
  IF cmd = NoFile \/ cmd = CorruptFile THEN <<occ, ent, ex, frz, FALSE>>
  ELSE IF Abs(t - cmd.ts) > STALE_SECS THEN <<occ, ent, ex, frz, FALSE>>
  ELSE CASE cmd.command = "RESET_SYSTEM" -> <<0, 0, 0, FALSE, TRUE>>
         [] cmd.command = "SET_OCCUPANCY" ->
              <<Max(0, Min(cmd.value, MAX_CAPACITY)), ent, ex, FALSE, TRUE>>
         [] cmd.command = "FORCE_FULL" -> <<MAX_CAPACITY, ent, ex, frz, TRUE>>
         [] cmd.command = "FREEZE" -> <<occ, ent, ex, TRUE, TRUE>>
         [] cmd.command = "RESUME_AUTO" -> <<occ, ent, ex, FALSE, TRUE>>
         [] OTHER -> <<occ, ent, ex, frz, FALSE>>

(***************************************************************************)
(* main.py : check_admin_commands                                          *)
(***************************************************************************)
\* check_admin_commands with SET_OCCUPANCY bounded from above only
check_admin_commands_NoLowerBound(cmd, occ, ent, ex, frz, t) ==
  IF cmd = NoFile \/ cmd = CorruptFile THEN <<occ, ent, ex, frz, FALSE>>
  ELSE IF Abs(t - cmd.ts) > STALE_SECS THEN <<occ, ent, ex, frz, FALSE>>
  ELSE CASE cmd.command = "RESET_SYSTEM" -> <<0, 0, 0, FALSE, TRUE>>
         [] cmd.command = "SET_OCCUPANCY" ->
              <<Min(cmd.value, MAX_CAPACITY), ent, ex, FALSE, TRUE>>
         [] cmd.command = "FORCE_FULL" -> <<MAX_CAPACITY, ent, ex, TRUE, TRUE>>
         [] cmd.command = "FREEZE" -> <<occ, ent, ex, TRUE, TRUE>>
         [] cmd.command = "RESUME_AUTO" -> <<occ, ent, ex, FALSE, TRUE>>
         [] OTHER -> <<occ, ent, ex, frz, FALSE>>

\* check_admin_commands without the test of the command's age
check_admin_commands_NoStaleTest(cmd, occ, ent, ex, frz, t) ==
  IF cmd = NoFile \/ cmd = CorruptFile THEN <<occ, ent, ex, frz, FALSE>>
  ELSE CASE cmd.command = "RESET_SYSTEM" -> <<0, 0, 0, FALSE, TRUE>>
         [] cmd.command = "SET_OCCUPANCY" ->
              <<Max(0, Min(cmd.value, MAX_CAPACITY)), ent, ex, FALSE, TRUE>>
         [] cmd.command = "FORCE_FULL" -> <<MAX_CAPACITY, ent, ex, TRUE, TRUE>>
         [] cmd.command = "FREEZE" -> <<occ, ent, ex, TRUE, TRUE>>
         [] cmd.command = "RESUME_AUTO" -> <<occ, ent, ex, FALSE, TRUE>>
         [] OTHER -> <<occ, ent, ex, frz, FALSE>>

\* <<occupancy, entry_count, exit_count, frozen, updated>> for the file content cmd
check_admin_commands(cmd, occ, ent, ex, frz, t) ==
  IF cmd = NoFile \/ cmd = CorruptFile THEN <<occ, ent, ex, frz, FALSE>>
  ELSE IF Abs(t - cmd.ts) > STALE_SECS THEN <<occ, ent, ex, frz, FALSE>>
  ELSE CASE cmd.command = "RESET_SYSTEM" -> <<0, 0, 0, FALSE, TRUE>>
         [] cmd.command = "SET_OCCUPANCY" ->
              <<Max(0, Min(cmd.value, MAX_CAPACITY)), ent, ex, FALSE, TRUE>>
         [] cmd.command = "FORCE_FULL" -> <<MAX_CAPACITY, ent, ex, TRUE, TRUE>>
         [] cmd.command = "FREEZE" -> <<occ, ent, ex, TRUE, TRUE>>
         [] cmd.command = "RESUME_AUTO" -> <<occ, ent, ex, FALSE, TRUE>>
         [] OTHER -> <<occ, ent, ex, frz, FALSE>>

(***************************************************************************)
(* identity/tracklet_buffer.py : TrackletBuffer                            *)
(*                                                                         *)
(* A score is kept exactly as the pair <<a, d>>:                           *)
(*   score = a / (20 * max_dist) + k * d,  k > 0 far below any gap of a,   *)
(* where a = 16 * (max_dist - dist) + 2 * max_dist * [features present]    *)
(* is (1 - APPEARANCE_WEIGHT) * motion + APPEARANCE_WEIGHT * appearance    *)
(* without the 1e-6 of the divisor, and k * d is what that 1e-6 adds.      *)
(* Distances are exact when the two positions share x or y; otherwise the  *)
(* integer part of the root is taken.                                      *)
(***************************************************************************)
\* APPEARANCE_WEIGHT = 0.2 in tenths
APPEARANCE_WEIGHT_10 == 2

\* integer part of the square root of dx^2 + dy^2
ISqrt(dx, dy) ==
  CHOOSE r \in 0..(Abs(dx) + Abs(dy)) :
    r * r <= dx * dx + dy * dy /\ (r + 1) * (r + 1) > dx * dx + dy * dy

\* math.hypot
Hypot(dx, dy) ==
  IF dx = 0 THEN Abs(dy) ELSE IF dy = 0 THEN Abs(dx) ELSE ISqrt(dx, dy)

\* dist > max_dist, decided on the squares
TooFar(dx, dy, max_dist) == dx * dx + dy * dy > max_dist * max_dist

Score(dist, hasFeatures) ==
  <<2 * (10 - APPEARANCE_WEIGHT_10) * (MAX_REASSOC_DISTANCE - dist)
      + (IF hasFeatures THEN APPEARANCE_WEIGHT_10 * MAX_REASSOC_DISTANCE ELSE 0),
    dist>>

\* s > t
ScoreGT(s, t) == s[1] > t[1] \/ (s[1] = t[1] /\ s[2] > t[2])

\* s >= t * 0.85
ScoreGE85(s, t) ==
  20 * s[1] > 17 * t[1] \/ (20 * s[1] = 17 * t[1] /\ 20 * s[2] >= 17 * t[2])

\* s > 0
ScorePositive(s) == s[1] > 0 \/ (s[1] = 0 /\ s[2] > 0)

add_lost(buf, old_id, features, positions, last_time) ==
  [k \in DOMAIN buf \cup {old_id} |->
     IF k = old_id
     THEN [features |-> features, positions |-> positions, last_time |-> last_time]
     ELSE buf[k]]

prune(buf, t) ==
  [k \in {j \in DOMAIN buf : ~(t - buf[j].last_time > LOST_BUFFER_SECS)} |-> buf[k]]

\* the ids that get a score in reassociate
Candidates(buf, start_pos, t) ==
  {k \in DOMAIN buf :
     /\ ~(t - buf[k].last_time > LOST_BUFFER_SECS)
     /\ Len(buf[k].positions) > 0
     /\ LET last_pos == buf[k].positions[Len(buf[k].positions)]
        IN ~TooFar(start_pos[1] - last_pos[1], start_pos[2] - last_pos[2],
                   MAX_REASSOC_DISTANCE)}

CandidateScore(buf, k, start_pos) ==
  LET last_pos == buf[k].positions[Len(buf[k].positions)]
  IN Score(Hypot(start_pos[1] - last_pos[1], start_pos[2] - last_pos[2]),
           Len(buf[k].features) > 0)

\* scores[0] after the descending sort
BestOf(buf, C, start_pos) ==
  CHOOSE k \in C :
    \A j \in C : ~ScoreGT(CandidateScore(buf, j, start_pos),
                          CandidateScore(buf, k, start_pos))

\* the guard without its tolerance: `scores[1][1] >= best_score`
Ambiguous_NoTolerance(buf, C, best, start_pos) ==
  \E j \in C \ {best} :
    ~ScoreGT(CandidateScore(buf, best, start_pos), CandidateScore(buf, j, start_pos))

\* the guard `len(scores) > 1 and scores[1][1] >= best_score * 0.85`
Ambiguous(buf, C, best, start_pos) ==
  \E j \in C \ {best} :
    ScoreGE85(CandidateScore(buf, j, start_pos), CandidateScore(buf, best, start_pos))

\* reassociate leaving the accepted entry in the buffer
reassociate_KeepsEntry(buf, start_pos, t) ==
  LET C == Candidates(buf, start_pos, t)
  IN IF C = {} THEN [match |-> <<>>, buffer |-> buf]
     ELSE LET best == BestOf(buf, C, start_pos)
          IN IF Ambiguous(buf, C, best, start_pos)
             THEN [match |-> <<>>, buffer |-> buf]
             ELSE IF ScorePositive(CandidateScore(buf, best, start_pos))
                  THEN [match |-> <<best>>,
                        buffer |-> buf]
                  ELSE [match |-> <<>>, buffer |-> buf]

\* reassociate: match is <<>> for None and <<id>> for an id
reassociate(buf, start_pos, t) ==
  LET C == Candidates(buf, start_pos, t)
  IN IF C = {} THEN [match |-> <<>>, buffer |-> buf]
     ELSE LET best == BestOf(buf, C, start_pos)
          IN IF Ambiguous(buf, C, best, start_pos)
             THEN [match |-> <<>>, buffer |-> buf]
             ELSE IF ScorePositive(CandidateScore(buf, best, start_pos))
                  THEN [match |-> <<best>>,
                        buffer |-> [k \in DOMAIN buf \ {best} |-> buf[k]]]
                  ELSE [match |-> <<>>, buffer |-> buf]

(***************************************************************************)
(* identity/vehicle_tracker.py : VehicleTracker                            *)
(*                                                                         *)
(* A feature vector is an appearance class (a string); extract_features    *)
(* gives "None" for an empty crop.  cosine_similarity is given in          *)
(* thousandths.  lost_tracks keeps the insertion order of the dict: it is  *)
(* a sequence of [id, frames_lost].                                        *)
(***************************************************************************)
USE_REID == TRUE
\* REID_SIMILARITY_THRESH = 0.7 in tenths
REID_SIMILARITY_THRESH_10 == 7
\* `distance > 200` in match_lost_track
REID_FAR_PIXELS == 200
\* `feature_history[lost_id][-5:]`
REID_COMPARE_FRAMES == 5
\* cosine similarity of two different appearance classes, in thousandths
CROSS_CLASS_SIM == 600

cosine_similarity(feat1, feat2) ==
  IF feat1 = "None" \/ feat2 = "None" THEN 0
  ELSE IF feat1 = feat2 THEN 1000 ELSE CROSS_CLASS_SIM

AppendBounded(s, e) ==
  IF Len(s) + 1 > REID_HISTORY_SIZE THEN Tail(Append(s, e)) ELSE Append(s, e)

\* dict[key] = value
Put(f, k, v) == [j \in DOMAIN f \cup {k} |-> IF j = k THEN v ELSE f[j]]
\* del dict[key]
Del(f, k) == [j \in DOMAIN f \ {k} |-> f[j]]
\* dict.get(key, [])
GetSeq(f, k) == IF k \in DOMAIN f THEN f[k] ELSE <<>>

\* update: the new feature_history and position_history
update(fh, ph, features, track_id, center) ==
  [feature_history |->
     IF features # "None" THEN Put(fh, track_id, AppendBounded(GetSeq(fh, track_id), features))
     ELSE fh,
   position_history |-> Put(ph, track_id, AppendBounded(GetSeq(ph, track_id), center))]

SeqSum(s) == LET RECURSIVE Sum(_)
                 Sum(i) == IF i = 0 THEN 0 ELSE s[i] + Sum(i - 1)
             IN Sum(Len(s))

\* the ids of lost_tracks
LostIds(lost) == {lost[i].id : i \in 1..Len(lost)}

RemoveLost(lost, ids) == SelectSeq(lost, LAMBDA e : e.id \notin ids)

\* the loop over lost_tracks of match_lost_track from entry i on; best is
\* [num, den, id] with best_similarity = num / den and id = <<>> for None
RECURSIVE ReidScan(_, _, _, _, _, _, _)
ReidScan(lost, i, features, center, fh, ph, best) ==
  IF i > Len(lost) THEN best
  ELSE LET lost_id == lost[i].id
       IN IF lost[i].frames_lost > TRACK_BUFFER \/ lost_id \notin DOMAIN fh
          THEN ReidScan(lost, i + 1, features, center, fh, ph, best)
          ELSE LET hf == LastN(fh[lost_id], REID_COMPARE_FRAMES)
                   sims == [j \in 1..Len(hf) |-> cosine_similarity(features, hf[j])]
                   far == /\ Len(GetSeq(ph, lost_id)) > 0
                          /\ LET last_pos == ph[lost_id][Len(ph[lost_id])]
                             IN TooFar(center[1] - last_pos[1], center[2] - last_pos[2],
                                       REID_FAR_PIXELS)
                   num == IF Len(sims) > 0 THEN SeqSum(sims) ELSE 0
                   den == (IF Len(sims) > 0 THEN 1000 * Len(sims) ELSE 1)
                            * (IF far THEN 2 ELSE 1)
               IN IF num * best.den > best.num * den
                  THEN ReidScan(lost, i + 1, features, center, fh, ph,
                                [num |-> num, den |-> den, id |-> <<lost_id>>])
                  ELSE ReidScan(lost, i + 1, features, center, fh, ph, best)

\* match_lost_track: the returned id and the tracker fields it changes
match_lost_track(fh, ph, lost, idmap, buf, features, new_id, center, t) ==
  IF new_id \in DOMAIN fh
  THEN [id |-> new_id, lost_tracks |-> lost, id_mapping |-> idmap, buffer |-> buf]
  ELSE LET r == reassociate(buf, center, t)
       IN IF r.match # <<>>
          THEN [id |-> r.match[1], lost_tracks |-> lost,
                id_mapping |-> Put(idmap, new_id, r.match[1]), buffer |-> r.buffer]
          ELSE IF ~USE_REID \/ features = "None"
               THEN [id |-> new_id, lost_tracks |-> lost, id_mapping |-> idmap,
                     buffer |-> buf]
               ELSE LET best == ReidScan(lost, 1, features, center, fh, ph,
                                         [num |-> REID_SIMILARITY_THRESH_10, den |-> 10,
                                          id |-> <<>>])
                        kept == SelectSeq(lost, LAMBDA e : ~(e.frames_lost > TRACK_BUFFER))
                    IN IF best.id # <<>>
                       THEN [id |-> best.id[1],
                             lost_tracks |-> RemoveLost(kept, {best.id[1]}),
                             id_mapping |-> Put(idmap, new_id, best.id[1]),
                             buffer |-> buf]
                       ELSE [id |-> new_id, lost_tracks |-> kept, id_mapping |-> idmap,
                             buffer |-> buf]

\* the ids of S in ascending order (iteration order of a set of small ints)
RECURSIVE Ascending(_)
Ascending(S) ==
  IF S = {} THEN <<>>
  ELSE LET m == CHOOSE x \in S : \A y \in S : x <= y
       IN <<m>> \o Ascending(S \ {m})

\* pushes the newly lost ids of the sequence ids into lost_tracks and the buffer
RECURSIVE PushLost(_, _, _, _, _, _)
PushLost(ids, lost, buf, fh, ph, t) ==
  IF ids = <<>> THEN [lost_tracks |-> lost, buffer |-> buf]
  ELSE IF Head(ids) \in LostIds(lost)
       THEN PushLost(Tail(ids), lost, buf, fh, ph, t)
       ELSE PushLost(Tail(ids),
                     Append(lost, [id |-> Head(ids), frames_lost |-> 1]),
                     add_lost(buf, Head(ids), GetSeq(fh, Head(ids)),
                              GetSeq(ph, Head(ids)), t),
                     fh, ph, t)

\* mark_present_ids: the new lost_tracks and buffer
mark_present_ids(fh, ph, lost, buf, current_ids, t) ==
  LET aged == [i \in 1..Len(lost) |-> [lost[i] EXCEPT !.frames_lost = @ + 1]]
      present == {current_ids[i] : i \in 1..Len(current_ids)}
      still == RemoveLost(aged, present)
      newly_lost == DOMAIN fh \ present
  IN PushLost(Ascending(newly_lost), still, buf, fh, ph, t)

(***************************************************************************)
(* roi_ocr/roi_observer.py                                                 *)
(***************************************************************************)
\* PLATE_ROI_INSIDE_RATIO = 0.85 in hundredths
PLATE_ROI_INSIDE_RATIO_100 == 85

_bbox_fully_inside(bbox) ==
  LET y1 == bbox[2]
      y2 == bbox[4]
      bbox_h == Max(1, y2 - y1)
      overlap_h == Max(0, Min(y2, ROI_Y2) - Max(y1, ROI_Y1))
  IN \/ y1 >= ROI_Y1 - PLATE_ROI_MARGIN /\ y2 <= ROI_Y2 + PLATE_ROI_MARGIN
     \/ 100 * overlap_h >= PLATE_ROI_INSIDE_RATIO_100 * bbox_h

_bbox_partially_inside(bbox) ==
  ~(bbox[3] < ROI_X1 \/ bbox[1] > ROI_X2 \/ bbox[4] < ROI_Y1 \/ bbox[2] > ROI_Y2)

\* main.py VehicleState(id, has_entered, has_exited); the roi_* attributes do
\* not exist before the first observe_roi: roi_fsm_state = "None" says so
VehicleState(id, has_entered, has_exited) ==
  [id |-> id, has_entered |-> has_entered, has_exited |-> has_exited,
   edge_frames |-> 0, ocr_armed |-> FALSE, ocr_fired |-> FALSE,
   ocr_frame_buffer |-> 0, direction |-> "None", bbox |-> <<>>,
   roi_fsm_state |-> "None", roi_fsm_inside |-> 0, roi_fsm_missed |-> 0,
   roi_direction_locked |-> "None"]

\* the state machine proper, vs already initialised and direction locked
RoiFsm(vs, fully_inside, partially_inside) ==
  LET N == MIN_STABLE_FRAMES
      K == ROI_MISSED_TOLERANCE
  IN CASE vs.roi_fsm_state = "OUTSIDE" ->
            IF partially_inside
            THEN [vs EXCEPT !.roi_fsm_state = "ENTERING",
                            !.roi_fsm_inside = IF fully_inside THEN 1 ELSE 0,
                            !.roi_fsm_missed = 0]
            ELSE vs
       [] vs.roi_fsm_state = "ENTERING" ->
            IF fully_inside
            THEN [vs EXCEPT !.roi_fsm_inside = @ + 1, !.roi_fsm_missed = 0,
                            !.roi_fsm_state =
                               IF vs.roi_fsm_inside + 1 >= N THEN "INSIDE" ELSE @]
            ELSE IF partially_inside
                 THEN [vs EXCEPT !.roi_fsm_missed = Max(0, @ - 1)]
                 ELSE IF vs.roi_fsm_missed + 1 > K
                      THEN [vs EXCEPT !.roi_fsm_state = "OUTSIDE",
                                      !.roi_fsm_inside = Max(@ - 1, 0),
                                      !.roi_fsm_missed = 0]
                      ELSE [vs EXCEPT !.roi_fsm_missed = @ + 1]
       [] vs.roi_fsm_state = "INSIDE" ->
            LET vs1 == IF fully_inside
                       THEN [vs EXCEPT !.roi_fsm_inside = @ + 1, !.roi_fsm_missed = 0]
                       ELSE IF partially_inside
                            THEN [vs EXCEPT !.roi_fsm_missed = Max(0, @ - 1)]
                            ELSE IF vs.roi_fsm_missed + 1 > K
                                 THEN [vs EXCEPT !.roi_fsm_state = "EXITING",
                                                 !.roi_fsm_missed = 0]
                                 ELSE [vs EXCEPT !.roi_fsm_missed = @ + 1]
            IN IF /\ ~vs1.ocr_fired /\ fully_inside /\ vs1.roi_fsm_inside >= N
                  /\ vs1.bbox[2] >= ROI_Y1 /\ vs1.bbox[4] <= ROI_Y2
               THEN [vs1 EXCEPT !.roi_direction_locked =
                                   IF @ = "None" THEN vs1.direction ELSE @,
                                !.ocr_armed = TRUE, !.ocr_fired = TRUE]
               ELSE vs1
       [] vs.roi_fsm_state = "EXITING" ->
            IF partially_inside
            THEN IF fully_inside
                 THEN [vs EXCEPT !.roi_fsm_state = "INSIDE", !.roi_fsm_inside = 1,
                                 !.roi_fsm_missed = 0]
                 ELSE [vs EXCEPT !.roi_fsm_missed = Max(0, @ - 1)]
            ELSE IF vs.roi_fsm_missed + 1 > K
                 THEN [vs EXCEPT !.roi_fsm_state = "DONE", !.roi_fsm_inside = 0,
                                 !.roi_fsm_missed = 0]
                 ELSE [vs EXCEPT !.roi_fsm_missed = @ + 1]
       [] OTHER -> vs

\* observe_roi marking the vehicle as entered once its capture has fired
observe_roi_MarksEntered(vs) ==
  IF vs.bbox = <<>> \/ vs.direction = "None" THEN vs
  ELSE LET vs0 == IF vs.roi_fsm_state = "None"
                  THEN [vs EXCEPT !.roi_fsm_state = "OUTSIDE", !.roi_fsm_inside = 0,
                                  !.roi_fsm_missed = 0, !.roi_direction_locked = "None"]
                  ELSE vs
           vs1 == IF vs0.roi_direction_locked = "None"
                  THEN [vs0 EXCEPT !.roi_direction_locked = vs0.direction]
                  ELSE vs0
           vs2 == RoiFsm(vs1, _bbox_fully_inside(vs1.bbox), _bbox_partially_inside(vs1.bbox))
       IN [vs2 EXCEPT !.has_entered = @ \/ vs2.ocr_fired]

\* observe_roi taking the direction of every call as the locked one
observe_roi_Relocks(vs) ==
  IF vs.bbox = <<>> \/ vs.direction = "None" THEN vs
  ELSE LET vs0 == IF vs.roi_fsm_state = "None"
                  THEN [vs EXCEPT !.roi_fsm_state = "OUTSIDE", !.roi_fsm_inside = 0,
                                  !.roi_fsm_missed = 0, !.roi_direction_locked = "None"]
                  ELSE vs
           vs1 == [vs0 EXCEPT !.roi_direction_locked = vs0.direction]
       IN RoiFsm(vs1, _bbox_fully_inside(vs1.bbox), _bbox_partially_inside(vs1.bbox))

\* observe_roi(vs, frame): vs.bbox and vs.direction were set by the caller
observe_roi(vs) ==
  IF vs.bbox = <<>> \/ vs.direction = "None" THEN vs
  ELSE LET vs0 == IF vs.roi_fsm_state = "None"
                  THEN [vs EXCEPT !.roi_fsm_state = "OUTSIDE", !.roi_fsm_inside = 0,
                                  !.roi_fsm_missed = 0, !.roi_direction_locked = "None"]
                  ELSE vs
           vs1 == IF vs0.roi_direction_locked = "None"
                  THEN [vs0 EXCEPT !.roi_direction_locked = vs0.direction]
                  ELSE vs0
       IN RoiFsm(vs1, _bbox_fully_inside(vs1.bbox), _bbox_partially_inside(vs1.bbox))

(***************************************************************************)
(* roi_ocr/ocr_jobs.py : fire_ocr_job                                      *)
(***************************************************************************)
\* the metadata of the job fire_ocr_job writes for vs, <<>> when it returns early
fire_ocr_job(vs) ==
  IF vs.ocr_frame_buffer = 0 THEN <<>>
  ELSE <<[track_id |-> vs.id,
          event_type |-> IF vs.has_entered THEN "entry"
                         ELSE IF vs.has_exited THEN "exit" ELSE "unknown",
          frame_count |-> vs.ocr_frame_buffer, status |-> "pending"]>>

\* the counting logic without the warm-up test
CountingLogic_NoWarmup(evt, track_id, occ, ent, ex, frz, cnt, t, wend) ==
  LET same == [occupancy |-> occ, entry_count |-> ent, exit_count |-> ex,
               frozen |-> frz, counted |-> cnt, saved |-> "None"]
      done == IF track_id \in DOMAIN cnt THEN cnt[track_id] ELSE {}
      r == IF evt = "entry"
           THEN IF "entry" \notin done /\ occ < MAX_CAPACITY
                THEN [same EXCEPT !.counted = Put(cnt, track_id, done \cup {"entry"}),
                                  !.entry_count = ent + 1,
                                  !.occupancy = occ + 1,
                                  !.saved = "entry"]
                ELSE same
           ELSE IF "exit" \notin done
                THEN [same EXCEPT !.counted = Put(cnt, track_id, done \cup {"exit"}),
                                  !.exit_count = ex + 1,
                                  !.occupancy = Max(0, occ - 1),
                                  !.saved = "exit"]
                ELSE same
  IN IF evt \notin {"entry", "exit"} THEN same
     ELSE IF frz THEN same
     ELSE [r EXCEPT !.frozen =
             IF r.occupancy < 0 \/ r.occupancy > MAX_CAPACITY THEN TRUE ELSE @]

\* the counting logic without the frozen test
CountingLogic_NoFrozenTest(evt, track_id, occ, ent, ex, frz, cnt, t, wend) ==
  LET same == [occupancy |-> occ, entry_count |-> ent, exit_count |-> ex,
               frozen |-> frz, counted |-> cnt, saved |-> "None"]
      done == IF track_id \in DOMAIN cnt THEN cnt[track_id] ELSE {}
      r == IF evt = "entry"
           THEN IF "entry" \notin done /\ occ < MAX_CAPACITY
                THEN [same EXCEPT !.counted = Put(cnt, track_id, done \cup {"entry"}),
                                  !.entry_count = ent + 1,
                                  !.occupancy = occ + 1,
                                  !.saved = "entry"]
                ELSE same
           ELSE IF "exit" \notin done
                THEN [same EXCEPT !.counted = Put(cnt, track_id, done \cup {"exit"}),
                                  !.exit_count = ex + 1,
                                  !.occupancy = Max(0, occ - 1),
                                  !.saved = "exit"]
                ELSE same
  IN IF evt \notin {"entry", "exit"} THEN same
     ELSE IF t < wend THEN same
     ELSE [r EXCEPT !.frozen =
             IF r.occupancy < 0 \/ r.occupancy > MAX_CAPACITY THEN TRUE ELSE @]

(***************************************************************************)
(* main.py : the frame loop                                                *)
(***************************************************************************)
\* CountingLogic with `occupancy - 1` in place of `max(0, occupancy - 1)`
CountingLogic_NoFloor(evt, track_id, occ, ent, ex, frz, cnt, t, wend) ==
  LET same == [occupancy |-> occ, entry_count |-> ent, exit_count |-> ex,
               frozen |-> frz, counted |-> cnt, saved |-> "None"]
      done == IF track_id \in DOMAIN cnt THEN cnt[track_id] ELSE {}
      r == IF evt = "entry"
           THEN IF "entry" \notin done /\ occ < MAX_CAPACITY
                THEN [same EXCEPT !.counted = Put(cnt, track_id, done \cup {"entry"}),
                                  !.entry_count = ent + 1,
                                  !.occupancy = occ + 1,
                                  !.saved = "entry"]
                ELSE same
           ELSE IF "exit" \notin done
                THEN [same EXCEPT !.counted = Put(cnt, track_id, done \cup {"exit"}),
                                  !.exit_count = ex + 1,
                                  !.occupancy = occ - 1,
                                  !.saved = "exit"]
                ELSE same
  IN IF evt \notin {"entry", "exit"} THEN same
     ELSE IF t < wend THEN same
     ELSE IF frz THEN same
     ELSE [r EXCEPT !.frozen =
             IF r.occupancy < 0 \/ r.occupancy > MAX_CAPACITY THEN TRUE ELSE @]

\* the counting block whose exit branch does not call save_occupancy
CountingLogic_ExitUnsaved(evt, track_id, occ, ent, ex, frz, cnt, t, wend) ==
  LET same == [occupancy |-> occ, entry_count |-> ent, exit_count |-> ex,
               frozen |-> frz, counted |-> cnt, saved |-> "None"]
      done == IF track_id \in DOMAIN cnt THEN cnt[track_id] ELSE {}
      r == IF evt = "entry"
           THEN IF "entry" \notin done /\ occ < MAX_CAPACITY
                THEN [same EXCEPT !.counted = Put(cnt, track_id, done \cup {"entry"}),
                                  !.entry_count = ent + 1,
                                  !.occupancy = occ + 1,
                                  !.saved = "entry"]
                ELSE same
           ELSE IF "exit" \notin done
                THEN [same EXCEPT !.counted = Put(cnt, track_id, done \cup {"exit"}),
                                  !.exit_count = ex + 1,
                                  !.occupancy = Max(0, occ - 1)]
                ELSE same
  IN IF evt \notin {"entry", "exit"} THEN same
     ELSE IF t < wend THEN same
     ELSE IF frz THEN same
     ELSE [r EXCEPT !.frozen =
             IF r.occupancy < 0 \/ r.occupancy > MAX_CAPACITY THEN TRUE ELSE @]

\* lines 253-291: what a returned event does to the ledger; saved is the
\* reason of the save_occupancy call made, "None" when none is made
CountingLogic(evt, track_id, occ, ent, ex, frz, cnt, t, wend) ==
  LET same == [occupancy |-> occ, entry_count |-> ent, exit_count |-> ex,
               frozen |-> frz, counted |-> cnt, saved |-> "None"]
      done == IF track_id \in DOMAIN cnt THEN cnt[track_id] ELSE {}
      r == IF evt = "entry"
           THEN IF "entry" \notin done /\ occ < MAX_CAPACITY
                THEN [same EXCEPT !.counted = Put(cnt, track_id, done \cup {"entry"}),
                                  !.entry_count = ent + 1,
                                  !.occupancy = occ + 1,
                                  !.saved = "entry"]
                ELSE same
           ELSE IF "exit" \notin done
                THEN [same EXCEPT !.counted = Put(cnt, track_id, done \cup {"exit"}),
                                  !.exit_count = ex + 1,
                                  !.occupancy = Max(0, occ - 1),
                                  !.saved = "exit"]
                ELSE same
  IN IF evt \notin {"entry", "exit"} THEN same
     ELSE IF t < wend THEN same
     ELSE IF frz THEN same
     ELSE [r EXCEPT !.frozen =
             IF r.occupancy < 0 \/ r.occupancy > MAX_CAPACITY THEN TRUE ELSE @]

\* lines 237-243: the direction handed to the observer
ObserverDirection(pos_hist) ==
  LET mv == IF Len(pos_hist) >= 2 THEN pos_hist[Len(pos_hist)][2] - pos_hist[1][2]
            ELSE 0
  IN IF mv > 0 THEN "ENTRY" ELSE "EXIT"

\* the history of the tracklet buffer: add_lost stored ids, reassociate returned id
LogOf(log, id) == IF id \in DOMAIN log THEN log[id] ELSE [added |-> 0, returned |-> 0]
Added(log, ids) ==
  [id \in DOMAIN log \cup ids |->
     IF id \in ids THEN [LogOf(log, id) EXCEPT !.added = @ + 1] ELSE log[id]]
Returned(log, id) ==
  [k \in DOMAIN log \cup {id} |->
     IF k = id THEN [LogOf(log, id) EXCEPT !.returned = @ + 1] ELSE log[k]]

\* the history of presence once a frame's detections are all handled: cur are
\* the ids of the frame, t its time
AbsenceAfter(a, cur, t) ==
  [prev |-> cur,
   left |-> a.prev \ cur,
   since |-> [id \in (DOMAIN a.since \ cur) \cup (a.prev \ cur) |->
                IF id \in DOMAIN a.since THEN a.since[id] ELSE t]]

NoObs == [step |-> "none"]

\* bounds of the exploration
MaxFrames == 17
MaxTime == 7
MaxOps == 1
MaxVehicles == 1
MaxArrival == 2

\* line 170-181: a frame was read
ReadFrame(dt) ==
  /\ pc = "read"
  /\ UNCHANGED <<adminVars, storeVars, histVars, ocrVars>>
  /\ pc' = "admin"
  /\ frame_count' = frame_count + 1
  /\ now' = now + dt
  /\ obs' = NoObs
  /\ UNCHANGED <<warmup_end, ledgerVars, fileVars, emVars, trackerVars, lifeVars,
                 frameVars, ext, used, tally, startup>>

\* lines 183-194: check_admin_commands and the save that follows an applied one
AdminStep ==
  /\ pc = "admin"
  /\ UNCHANGED <<adminVars, storeVars, histVars, ocrVars>>
  /\ pc' = "detect"
  /\ LET r == check_admin_commands(command_file, occupancy, entry_count, exit_count,
                                   frozen, now)
         sv == save_occupancy(state_file, db_up, db, r[1], r[2], r[3],
                              "admin_command", [list |-> vehicle_states], now)
     IN /\ occupancy' = r[1]
        /\ entry_count' = r[2]
        /\ exit_count' = r[3]
        /\ frozen' = r[4]
        /\ updated' = r[5]
        /\ state_file' = IF r[5] THEN sv.state_file ELSE state_file
        /\ db' = IF r[5] THEN sv.db ELSE db
        /\ startup' = IF r[5] /\ command_file.command \in {"RESET_SYSTEM", "SET_OCCUPANCY"}
                       THEN [startup EXCEPT !.override = TRUE]
                       ELSE startup
        /\ obs' = [step |-> "admin", cmd |-> command_file,
                   pre |-> <<occupancy, entry_count, exit_count, frozen>>,
                   file_pre |-> state_file, db_pre |-> db]
  \* json.load raises before os.remove when the file is unreadable
  /\ command_file' = IF command_file = CorruptFile THEN CorruptFile ELSE NoFile
  /\ UNCHANGED <<frame_count, now, warmup_end, db_up, ocr_jobs, emVars, trackerVars,
                 lifeVars, frameVars, ext, used, tally>>

\* check_admin_commands up to the end of json.load (lines 56-61), for a file
\* that exists and can be read
AdminLoad ==
  /\ pc = "admin"
  /\ command_file # NoFile /\ command_file # CorruptFile
  /\ pc' = "admin_remove"
  /\ loaded_cmd' = command_file
  /\ obs' = NoObs
  /\ UNCHANGED <<frame_count, now, warmup_end, ledgerVars, fileVars, emVars, trackerVars,
                 lifeVars, frameVars, ext, used, tally, startup, storeVars, histVars,
                 ocrVars>>

\* check_admin_commands from os.remove on (lines 63-97), and the save that
\* follows an applied command (lines 187-194); os.remove deletes whatever file
\* is there now
AdminRemove ==
  /\ pc = "admin_remove"
  /\ pc' = "detect"
  /\ LET r == IF command_file = NoFile
              THEN <<occupancy, entry_count, exit_count, frozen, FALSE>>
              ELSE check_admin_commands(loaded_cmd, occupancy, entry_count,
                                        exit_count, frozen, now)
         sv == save_occupancy(state_file, db_up, db, r[1], r[2], r[3],
                              "admin_command", [list |-> vehicle_states], now)
     IN /\ occupancy' = r[1]
        /\ entry_count' = r[2]
        /\ exit_count' = r[3]
        /\ frozen' = r[4]
        /\ updated' = r[5]
        /\ state_file' = IF r[5] THEN sv.state_file ELSE state_file
        /\ db' = IF r[5] THEN sv.db ELSE db
        /\ startup' = IF r[5] /\ loaded_cmd.command \in {"RESET_SYSTEM", "SET_OCCUPANCY"}
                       THEN [startup EXCEPT !.override = TRUE]
                       ELSE startup
        /\ obs' = [step |-> "admin", cmd |-> loaded_cmd, removed |-> command_file,
                   pre |-> <<occupancy, entry_count, exit_count, frozen>>,
                   file_pre |-> state_file, db_pre |-> db]
  /\ command_file' = NoFile
  /\ loaded_cmd' = NoFile
  /\ UNCHANGED <<frame_count, now, warmup_end, db_up, ocr_jobs, emVars, trackerVars,
                 lifeVars, frameVars, ext, used, tally, storeVars, histVars, ocrVars>>

\* lines 202-212: the detector's result for this frame; ds is its list of
\* [pid, box, feat] and e the upstream tracker's new report per provisional id
RunDetection(ds, e) ==
  /\ pc = "detect"
  /\ UNCHANGED <<adminVars, storeVars, lost_log, ocrVars>>
  /\ absence' = IF Len(ds) > 0 THEN absence ELSE AbsenceAfter(absence, {}, now)
  /\ pc' = IF Len(ds) > 0 THEN "track" ELSE "cleanup"
  /\ dets' = ds
  /\ ext' = e
  /\ current_frame_ids' = <<>>
  /\ observer_tasks' = <<>>
  /\ obs' = NoObs
  /\ UNCHANGED <<frame_count, now, warmup_end, ledgerVars, fileVars, emVars,
                 trackerVars, lifeVars, key, used, tally, startup>>

\* lines 213-294: one detection of the frame
TrackStep ==
  /\ pc = "track"
  /\ UNCHANGED <<adminVars, storeVars, ocrVars>>
  /\ Len(dets) > 0
  /\ LET d == Head(dets)
         x1 == d.box[1]
         y1 == d.box[2]
         w == d.box[3] - d.box[1]
         h == d.box[4] - d.box[2]
         cx == x1 + (w \div 2)
         cy == y1 + (h \div 2)
         m == match_lost_track(feature_history, position_history, lost_tracks,
                               id_mapping, buffer, d.feat, d.pid, <<cx, cy>>, now)
         track_id == m.id
         u == update(feature_history, position_history, d.feat, track_id, <<cx, cy>>)
         vs1 == IF track_id \in DOMAIN vehicle_states THEN vehicle_states
                ELSE Put(vehicle_states, track_id, VehicleState(track_id, FALSE, FALSE))
         pos_hist == GetSeq(u.position_history, track_id)
         direction == ObserverDirection(pos_hist)
         gate == LINE_X1 < cx /\ cx < LINE_X2
         p == IF gate THEN process(em_state, track_id, cy, pos_hist, frame_count)
              ELSE [state |-> em_state, evt |-> "None"]
         c == CountingLogic(p.evt, track_id, occupancy, entry_count, exit_count,
                            frozen, counted, now, warmup_end)
         sv == save_occupancy(state_file, db_up, db, c.occupancy, c.entry_count,
                              c.exit_count, c.saved, [list |-> vs1], now)
         old == IF track_id \in DOMAIN tally THEN tally[track_id]
                ELSE [entry |-> 0, exit |-> 0, events |-> <<>>, seen |-> 0,
                      calls |-> <<>>]
         call == [y |-> cy, evt |-> p.evt,
                  pre |-> IF track_id \in DOMAIN em_state THEN em_state[track_id].state
                          ELSE "DETECTED",
                  post |-> p.state[track_id].state,
                  tail |-> LastN(Ys(pos_hist), CONFIRM_FRAMES)]
         ra == IF d.pid \in DOMAIN feature_history THEN [called |-> FALSE, match |-> <<>>]
               ELSE [called |-> TRUE,
                     match |-> reassociate(buffer, <<cx, cy>>, now).match]
     IN /\ feature_history' = u.feature_history
        /\ position_history' = u.position_history
        /\ lost_tracks' = m.lost_tracks
        /\ id_mapping' = m.id_mapping
        /\ buffer' = m.buffer
        /\ current_frame_ids' = Append(current_frame_ids, track_id)
        /\ vehicle_states' = vs1
        /\ missing_frames' = IF track_id \in DOMAIN vehicle_states THEN missing_frames
                             ELSE Put(missing_frames, track_id, 0)
        /\ observer_tasks' = Append(observer_tasks, <<track_id, d.box, direction>>)
        /\ em_state' = p.state
        /\ counted' = c.counted
        /\ occupancy' = c.occupancy
        /\ entry_count' = c.entry_count
        /\ exit_count' = c.exit_count
        /\ frozen' = c.frozen
        /\ state_file' = IF c.saved # "None" THEN sv.state_file ELSE state_file
        /\ db' = IF c.saved # "None"
                 THEN log_vehicle_event(db_up, sv.db, track_id, c.saved, c.occupancy, now)
                 ELSE db
        /\ tally' = Put(tally, track_id,
                        [entry |-> old.entry + (c.entry_count - entry_count),
                         exit |-> old.exit + (c.exit_count - exit_count),
                         events |-> IF p.evt = "None" THEN old.events
                                    ELSE Append(old.events, [evt |-> p.evt,
                                                             at |-> Len(pos_hist)]),
                         seen |-> old.seen + 1,
                         calls |-> IF gate THEN Append(old.calls, call) ELSE old.calls])
        /\ lost_log' = IF ra.match = <<>> THEN lost_log
                       ELSE Returned(lost_log, ra.match[1])
        /\ UNCHANGED absence
        /\ obs' = [step |-> "track", pid |-> d.pid, id |-> track_id, evt |-> p.evt,
                   called |-> gate, saved |-> c.saved,
                   pre |-> <<occupancy, entry_count, exit_count, frozen>>,
                   file_pre |-> state_file, db_pre |-> db, counted_pre |-> counted,
                   centre |-> <<cx, cy>>,
                   buffer_pre |-> buffer, reassociate |-> ra,
                   finalized_pre |-> IF track_id \in DOMAIN em_state
                                     THEN em_state[track_id].finalized ELSE {}]
  /\ dets' = Tail(dets)
  /\ UNCHANGED <<pc, frame_count, now, warmup_end, updated, command_file, db_up,
                 ocr_jobs, key, ext, used, startup>>

\* lines 297-301: mark_present_ids and prune, after the last detection
EndTrack ==
  /\ pc = "track"
  /\ UNCHANGED <<adminVars, storeVars, ocrVars>>
  /\ dets = <<>>
  /\ pc' = "observe"
  /\ LET m == mark_present_ids(feature_history, position_history, lost_tracks,
                               buffer, current_frame_ids, now)
     IN /\ lost_tracks' = m.lost_tracks
        /\ buffer' = prune(m.buffer, now)
  /\ lost_log' = Added(lost_log,
                       (DOMAIN feature_history
                          \ {current_frame_ids[i] : i \in 1..Len(current_frame_ids)})
                         \ LostIds(lost_tracks))
  /\ absence' = AbsenceAfter(absence,
                             {current_frame_ids[i] : i \in 1..Len(current_frame_ids)}, now)
  /\ obs' = NoObs
  /\ UNCHANGED <<frame_count, now, warmup_end, ledgerVars, fileVars, emVars,
                 feature_history, position_history, id_mapping, lifeVars,
                 frameVars, ext, used, tally, startup>>

\* deque(maxlen=10).append on the buffer's length
OCR_BUFFER_LEN == 10

\* observe_roi with an exception raised inside it, at its entry or once the
\* state machine's fields exist and the direction is locked: what it did up to
\* there stays, the except clause of line 167 returns
observe_roi_raising(vs, at) ==
  IF at = "entry" THEN vs
  ELSE LET vs0 == IF vs.roi_fsm_state = "None"
                  THEN [vs EXCEPT !.roi_fsm_state = "OUTSIDE", !.roi_fsm_inside = 0,
                                  !.roi_fsm_missed = 0, !.roi_direction_locked = "None"]
                  ELSE vs
       IN IF vs0.roi_direction_locked = "None"
          THEN [vs0 EXCEPT !.roi_direction_locked = vs0.direction]
          ELSE vs0

\* an exception raised inside observe_roi reaching the frame loop
ObserverPhaseNext_Propagates(fault, remaining) ==
  IF fault # "none" THEN "done"
  ELSE IF remaining = 1 THEN "cleanup" ELSE "observe"

\* lines 304 and 322-325: where the loop goes after an observer task, of which
\* remaining were left; observe_roi and the try around its call catch whatever
\* was raised
ObserverPhaseNext(fault, remaining) ==
  IF remaining = 1 THEN "cleanup" ELSE "observe"

\* lines 304-368: one observer task; fault says whether and where an exception
\* is raised inside observe_roi
ObserveStep(fault) ==
  /\ pc = "observe"
  /\ UNCHANGED <<adminVars, storeVars, histVars, ocrVars>>
  /\ Len(observer_tasks) > 0
  /\ LET task == Head(observer_tasks)
         t_id == task[1]
         bbox == task[2]
         vs0 == IF t_id \in DOMAIN vehicle_states THEN vehicle_states[t_id]
                ELSE VehicleState(t_id, FALSE, FALSE)
         vs1 == [vs0 EXCEPT !.direction = task[3], !.bbox = bbox]
         vs2 == IF fault = "none" THEN observe_roi(vs1)
                ELSE observe_roi_raising(vs1, fault)
         fired == vs2.ocr_fired /\ ~vs1.ocr_fired
         cropped == fired /\ bbox[3] > Max(0, bbox[1]) /\ bbox[4] > Max(0, bbox[2])
         vs3 == IF cropped
                THEN [vs2 EXCEPT !.ocr_frame_buffer = Min(OCR_BUFFER_LEN, @ + 1)]
                ELSE vs2
         job == IF cropped THEN fire_ocr_job(vs3) ELSE <<>>
     IN /\ vehicle_states' = Put(vehicle_states, t_id, vs3)
        /\ ocr_jobs' = ocr_jobs \o job
        /\ obs' = [step |-> "observe", id |-> t_id, fired |-> fired, fault |-> fault,
                   vs_pre |-> vs1, vs |-> vs3,
                   flags_pre |-> <<vs0.has_entered, vs0.has_exited>>,
                   pre |-> <<occupancy, entry_count, exit_count, frozen>>,
                   file_pre |-> state_file]
  /\ observer_tasks' = Tail(observer_tasks)
  /\ pc' = ObserverPhaseNext(fault, Len(observer_tasks))
  /\ used' = IF fault = "none" THEN used ELSE used + 1
  /\ UNCHANGED <<frame_count, now, warmup_end, ledgerVars, command_file, state_file,
                 db_up, db, emVars, trackerVars, missing_frames, dets,
                 current_frame_ids, key, ext, tally, startup>>

\* the cleanup deleting every record that has been missing long enough
Cleanup_DropsUnexited ==
  /\ pc = "cleanup"
  /\ UNCHANGED <<adminVars, storeVars, histVars, ocrVars>>
  /\ pc' = "key"
  /\ LET active_ids == {current_frame_ids[i] : i \in 1..Len(current_frame_ids)}
         mf1 == [tid \in DOMAIN missing_frames \cup DOMAIN vehicle_states |->
                   IF tid \in DOMAIN vehicle_states
                   THEN IF tid \notin active_ids
                        THEN (IF tid \in DOMAIN missing_frames
                              THEN missing_frames[tid] ELSE 0) + 1
                        ELSE 0
                   ELSE missing_frames[tid]]
         gone == {tid \in DOMAIN mf1 :
                    /\ mf1[tid] >= MAX_MISSING
                    /\ tid \in DOMAIN vehicle_states}
     IN /\ missing_frames' = [tid \in DOMAIN mf1 \ gone |-> mf1[tid]]
        /\ vehicle_states' = [tid \in DOMAIN vehicle_states \ gone |-> vehicle_states[tid]]
  /\ obs' = NoObs
  /\ UNCHANGED <<frame_count, now, warmup_end, ledgerVars, fileVars, emVars,
                 trackerVars, frameVars, ext, used, tally, startup>>

\* lines 370-388: missing-frame counters and removal of exited states
Cleanup ==
  /\ pc = "cleanup"
  /\ UNCHANGED <<adminVars, storeVars, histVars, ocrVars>>
  /\ pc' = "key"
  /\ LET active_ids == {current_frame_ids[i] : i \in 1..Len(current_frame_ids)}
         mf1 == [tid \in DOMAIN missing_frames \cup DOMAIN vehicle_states |->
                   IF tid \in DOMAIN vehicle_states
                   THEN IF tid \notin active_ids
                        THEN (IF tid \in DOMAIN missing_frames
                              THEN missing_frames[tid] ELSE 0) + 1
                        ELSE 0
                   ELSE missing_frames[tid]]
         gone == {tid \in DOMAIN mf1 :
                    /\ mf1[tid] >= MAX_MISSING
                    /\ tid \in DOMAIN vehicle_states
                    /\ vehicle_states[tid].has_exited}
     IN /\ missing_frames' = [tid \in DOMAIN mf1 \ gone |-> mf1[tid]]
        /\ vehicle_states' = [tid \in DOMAIN vehicle_states \ gone |-> vehicle_states[tid]]
  /\ obs' = NoObs
  /\ UNCHANGED <<frame_count, now, warmup_end, ledgerVars, fileVars, emVars,
                 trackerVars, frameVars, ext, used, tally, startup>>

\* lines 403-431 and 433-438: the key read by cv.waitKey; val is what the
\* operator types at the prompt of 's': <<n>> for the integer n, <<>> for
\* anything int() rejects
KeyStep(k, val) ==
  /\ pc = "key"
  /\ UNCHANGED <<adminVars, storeVars, histVars, ocrVars>>
  /\ key' = k
  /\ used' = IF k = "none" THEN used ELSE used + 1
  /\ obs' = [step |-> "key", key |-> k, val |-> val,
             pre |-> <<occupancy, entry_count, exit_count, frozen>>,
             file_pre |-> state_file]
  /\ CASE k = "q" ->
            LET sv == save_occupancy(state_file, db_up, db, occupancy, entry_count,
                                     exit_count, "None", [list |-> vehicle_states], now)
            IN /\ pc' = "done"
               /\ state_file' = sv.state_file
               /\ db' = sv.db
               /\ UNCHANGED <<occupancy, entry_count, exit_count, frozen, lifeVars>>
       [] k = "r" ->
            LET sv == save_occupancy(state_file, db_up, db, 0, 0, 0, "manual_reset",
                                     [list |-> EmptyFn], now)
            IN /\ pc' = "read"
               /\ occupancy' = 0
               /\ entry_count' = 0
               /\ exit_count' = 0
               /\ frozen' = FALSE
               /\ vehicle_states' = EmptyFn
               /\ missing_frames' = EmptyFn
               /\ state_file' = sv.state_file
               /\ db' = clear_vehicle_states(db_up, sv.db)
       [] k = "s" /\ val # <<>> ->
            LET v == Max(0, Min(val[1], MAX_CAPACITY))
                sv == save_occupancy(state_file, db_up, db, v, entry_count,
                                     exit_count, "manual_set",
                                     [list |-> vehicle_states], now)
            IN /\ pc' = "read"
               /\ occupancy' = v
               /\ frozen' = FALSE
               /\ state_file' = sv.state_file
               /\ db' = sv.db
               /\ UNCHANGED <<entry_count, exit_count, lifeVars>>
       [] OTHER ->
            /\ pc' = "read"
            /\ UNCHANGED <<occupancy, entry_count, exit_count, frozen, lifeVars,
                           state_file, db>>
  /\ UNCHANGED <<frame_count, now, warmup_end, updated, command_file, db_up, ocr_jobs,
                 emVars, trackerVars, dets, current_frame_ids, observer_tasks, ext,
                 tally, startup>>

(***************************************************************************)
(* admin_dashboard.py and the environment of the loop                      *)
(***************************************************************************)
\* send_command / atomic_write_command: os.replace puts the whole payload in
\* place; c.ts is the writer's clock when it wrote
SendCommand(c) ==
  /\ pc = "read"
  /\ UNCHANGED <<adminVars, storeVars, histVars, ocrVars>>
  /\ command_file' = c
  /\ used' = used + 1
  /\ obs' = NoObs
  /\ UNCHANGED <<pc, frame_count, now, warmup_end, ledgerVars, state_file, db_up, db,
                 ocr_jobs, emVars, trackerVars, lifeVars, frameVars, ext, tally, startup>>

\* send_command at any moment of the loop: the dashboard is another process
DashboardSend(c) ==
  /\ command_file' = c
  /\ used' = used + 1
  /\ UNCHANGED <<pc, frame_count, now, warmup_end, ledgerVars, state_file, db_up, db,
                 ocr_jobs, emVars, trackerVars, lifeVars, frameVars, ext, tally, startup,
                 obs, storeVars, histVars, ocrVars, adminVars>>

\* a command payload written d seconds before the loop reads it
Command(name, value, d) == [command |-> name, value |-> value, ts |-> now - d]

\* n positions from y0 on, step apart
Leg(y0, step, n) == [i \in 1..n |-> y0 + step * (i - 1)]

\* A course is what the upstream tracker reports of one vehicle: the centre
\* of its box frame after frame (x fixed, ys[k] in the k-th frame it is seen)
\* and its appearance class.  The line is at y = 370.
CourseOf(x, ys, feat) == [x |-> x, ys |-> ys, feat |-> feat]

\* from below the line to above it, back below it and above it again
UpCourse == CourseOf(800, Leg(470, -15, 11) \o Leg(335, 15, 4) \o Leg(365, -15, 2), "a")
\* from above the line to below it
DownCourse == CourseOf(800, Leg(265, 15, 11), "b")

\* the box the detector reports for a vehicle centred at <<x, y>>
BoxAt(x, y) == <<x - 50, y - 30, x + 50, y + 30>>

\* the vehicles in view: ext[pid] = [course, k], at the k-th position of the course
InView(e) == {pid \in DOMAIN e : e[pid].k <= Len(e[pid].course.ys)}

\* extract_detections: one [pid, box, feat] per vehicle in view; a course
\* that also moves sideways gives its x frame by frame in xs
Detections(e) ==
  LET ids == Ascending(InView(e))
  IN [i \in 1..Len(ids) |->
        [pid |-> ids[i],
         box |-> BoxAt(IF "xs" \in DOMAIN e[ids[i]].course
                       THEN e[ids[i]].course.xs[e[ids[i]].k]
                       ELSE e[ids[i]].course.x,
                       e[ids[i]].course.ys[e[ids[i]].k]),
         feat |-> e[ids[i]].course.feat]]

\* every vehicle moves on by one frame
Advance(e) == [pid \in DOMAIN e |-> [e[pid] EXCEPT !.k = @ + 1]]

\* the courses a vehicle can arrive on in this frame
Arrivals(cs) == IF frame_count <= MaxArrival THEN cs ELSE {}

\* what the upstream tracker can report next: the vehicles move on and
\* possibly a new one appears on one of the courses cs
Reports(e, cs, maxv) ==
  {Advance(e)} \cup
  {Put(Advance(e), Cardinality(DOMAIN e) + 1, [course |-> c, k |-> 1]) :
     c \in {c \in cs : Cardinality(DOMAIN e) < maxv}}

(***************************************************************************)
(* roi_ocr/ocr_jobs.py and ocr_processor.py: the job folders on disk, the  *)
(* writer of a job and the consumer process                                *)
(*                                                                         *)
(* A job is named after its track id (the name also carries the time in    *)
(* milliseconds, and ocr_fired lets a track fire once).  A metadata.json   *)
(* is NoFile while it does not exist, PartFile between open(path, 'w') and *)
(* the end of json.dump, and afterwards the record that was dumped.        *)
(***************************************************************************)
PartFile == [partial |-> TRUE]

IsMeta(m) == m # NoFile /\ m # PartFile

ProducerIdle == [pc |-> "idle"]
ConsumerStart == [pc |-> "scan", pending |-> <<>>]

\* lines 31-59: the job folder and its frames exist, metadata.json not yet
FireFrames(vs) ==
  /\ producer.pc = "idle"
  /\ vs.id \notin DOMAIN job_dir
  /\ fire_ocr_job(vs) # <<>>
  /\ job_dir' = Put(job_dir, vs.id, [place |-> "jobs", meta |-> NoFile])
  /\ producer' = [pc |-> "frames", vs |-> vs]
  /\ UNCHANGED <<consumer, results_file, ocr_rows, ocr_log>>

\* line 73: open(meta_path, 'w')
FireOpen ==
  /\ producer.pc = "frames"
  /\ job_dir' = [job_dir EXCEPT ![producer.vs.id].meta = PartFile]
  /\ producer' = [producer EXCEPT !.pc = "writing"]
  /\ UNCHANGED <<consumer, results_file, ocr_rows, ocr_log>>

\* lines 74-88: json.dump has written everything and the file is closed;
\* the job logged to the remote table with no plate yet
FireDump ==
  /\ producer.pc = "writing"
  /\ job_dir' = [job_dir EXCEPT ![producer.vs.id].meta = fire_ocr_job(producer.vs)[1]]
  /\ producer' = ProducerIdle
  /\ ocr_rows' = IF db_up
                 THEN Append(ocr_rows, [track_id |-> producer.vs.id, plate_text |-> "None",
                                        event_type |-> fire_ocr_job(producer.vs)[1].event_type])
                 ELSE ocr_rows
  /\ UNCHANGED <<consumer, results_file, ocr_log>>

\* the scan selecting every readable metadata.json whatever its status
PendingJobs_AnyStatus(dir) ==
  Ascending({j \in DOMAIN dir : dir[j].place = "jobs" /\ IsMeta(dir[j].meta)})

\* run_processor lines 321-334: the folders under ocr_jobs/ whose
\* metadata.json exists, parses and has status pending
PendingJobs(dir) ==
  Ascending({j \in DOMAIN dir :
               /\ dir[j].place = "jobs"
               /\ IsMeta(dir[j].meta)
               /\ dir[j].meta.status = "pending"})

\* run_processor lines 317-340: one scan of the job directory
Scan ==
  /\ consumer.pc = "scan"
  /\ LET pending_jobs == PendingJobs(job_dir)
         here == {j \in DOMAIN job_dir : job_dir[j].place = "jobs"}
     IN /\ consumer' = IF pending_jobs = <<>> THEN ConsumerStart
                       ELSE [pc |-> "pick", pending |-> pending_jobs]
        /\ ocr_log' = [ocr_log EXCEPT
                         !.torn = @ \cup {j \in here : /\ job_dir[j].meta = PartFile
                                                       /\ producer.pc = "writing"
                                                       /\ producer.vs.id = j},
                         !.skipped = @ \cup {j \in here : /\ IsMeta(job_dir[j].meta)
                                                          /\ job_dir[j].meta.status
                                                               = "processed"}]
  /\ UNCHANGED <<job_dir, producer, results_file, ocr_rows>>

\* process_job lines 187-263: metadata read, plate read from the frames,
\* metadata.json opened for writing; plate is "None" when no plate was read
ProcessOpen(plate) ==
  /\ consumer.pc = "pick"
  /\ LET j == Head(consumer.pending)
         metadata == job_dir[j].meta
     IN /\ job_dir[j].place = "jobs" /\ IsMeta(metadata)
        /\ consumer' = [pc |-> "rewrite", pending |-> consumer.pending,
                        metadata |-> metadata,
                        result |-> [track_id |-> metadata.track_id, plate_text |-> plate,
                                    event_type |-> metadata.event_type]]
        /\ job_dir' = [job_dir EXCEPT ![j].meta = PartFile]
  /\ UNCHANGED <<producer, results_file, ocr_rows, ocr_log>>

\* process_job lines 264-266: status and result dumped, the result returned
ProcessWrite ==
  /\ consumer.pc = "rewrite"
  /\ LET j == Head(consumer.pending)
     IN /\ job_dir' = [job_dir EXCEPT ![j].meta =
                         [track_id |-> consumer.metadata.track_id,
                          event_type |-> consumer.metadata.event_type,
                          frame_count |-> consumer.metadata.frame_count,
                          status |-> "processed", result |-> consumer.result]]
        /\ ocr_log' = [ocr_log EXCEPT !.processed =
                         Put(@, j, (IF j \in DOMAIN @ THEN @[j] ELSE 0) + 1)]
  /\ consumer' = [pc |-> "remote", pending |-> consumer.pending,
                  result |-> consumer.result]
  /\ UNCHANGED <<producer, results_file, ocr_rows>>

\* _update_supabase: a row only when a plate was read and the store answers
RecordRemote ==
  /\ consumer.pc = "remote"
  /\ ocr_rows' = IF db_up /\ consumer.result.plate_text # "None"
                 THEN Append(ocr_rows, consumer.result) ELSE ocr_rows
  /\ consumer' = [consumer EXCEPT !.pc = "local"]
  /\ UNCHANGED <<job_dir, producer, results_file, ocr_log>>

\* _save_local_result: one line appended to ocr_results.jsonl
RecordLocal ==
  /\ consumer.pc = "local"
  /\ results_file' = Append(results_file, consumer.result)
  /\ consumer' = [consumer EXCEPT !.pc = "move"]
  /\ UNCHANGED <<job_dir, producer, ocr_rows, ocr_log>>

\* run_processor lines 361-369: the folder moved under processed/, or the
\* move failing with the exception caught; then the next pending job
MoveJob(moved) ==
  /\ consumer.pc = "move"
  /\ LET j == Head(consumer.pending)
     IN job_dir' = IF moved THEN [job_dir EXCEPT ![j].place = "processed"] ELSE job_dir
  /\ consumer' = IF Len(consumer.pending) > 1
                 THEN [pc |-> "pick", pending |-> Tail(consumer.pending)]
                 ELSE ConsumerStart
  /\ UNCHANGED <<producer, results_file, ocr_rows, ocr_log>>

\* the consumer process is killed and started again
Restart ==
  /\ consumer' = ConsumerStart
  /\ ocr_log' = [ocr_log EXCEPT !.crashes = @ + 1]
  /\ UNCHANGED <<job_dir, producer, results_file, ocr_rows>>

(***************************************************************************)
(* main.py lines 117-164: construction                                     *)
(***************************************************************************)
EmptyDb == [snapshot |-> None, vehicle_states |-> EmptyFn, audit_log |-> <<>>,
            vehicle_events |-> <<>>]

\* a persisted local record with occupancy occ
PersistedFile(occ, ent, ex, vs) ==
  [occupancy |-> occ, entry_count |-> ent, exit_count |-> ex, last_update |-> 0,
   reason |-> "event", max_capacity |-> MAX_CAPACITY, audit |-> <<>>,
   vehicle_states |-> vs]

\* a persisted remote snapshot with occupancy occ
PersistedDb(occ, ent, ex, vs) ==
  [EmptyDb EXCEPT !.snapshot = [occupancy |-> occ, entry_count |-> ent, exit_count |-> ex,
                                max_capacity |-> MAX_CAPACITY, last_update |-> 0,
                                frozen |-> FALSE],
                  !.vehicle_states = vs]

\* the state after construction, given what is persisted
InitFrom(up, d, f) ==
  /\ pc = "read"
  /\ frame_count = 0
  /\ now = 0
  /\ warmup_end = 0 + WARMUP_SECS
  /\ db_up = up
  /\ db = d
  /\ state_file = f
  /\ command_file = NoFile
  /\ ocr_jobs = <<>>
  /\ startup = [raw |-> IF load_occupancy_from_db(up, d) # None
                        THEN <<d.snapshot.occupancy>>
                        ELSE IF IsRecordFile(f) THEN <<f.occupancy>> ELSE <<>>,
                override |-> FALSE]
  /\ LET l == load_occupancy(up, d, f)
     IN /\ occupancy = l[1]
        /\ entry_count = l[2]
        /\ exit_count = l[3]
        /\ frozen = (l[1] < 0 \/ l[1] > MAX_CAPACITY)
  /\ updated = FALSE
  /\ LET vl == load_vehicle_states(up, d, f)
     IN /\ vehicle_states =
             [id \in DOMAIN vl |-> VehicleState(id, vl[id].has_entered, vl[id].has_exited)]
        /\ missing_frames = [id \in DOMAIN vl |-> 0]
  /\ em_state = EmptyFn
  /\ counted = EmptyFn
  /\ feature_history = EmptyFn
  /\ position_history = EmptyFn
  /\ lost_tracks = <<>>
  /\ id_mapping = EmptyFn
  /\ buffer = EmptyFn
  /\ dets = <<>>
  /\ current_frame_ids = <<>>
  /\ observer_tasks = <<>>
  /\ key = "none"
  /\ ext = EmptyFn
  /\ used = 0
  /\ tally = EmptyFn
  /\ obs = NoObs
  /\ vs_cache = None
  /\ lost_log = EmptyFn
  /\ absence = [prev |-> {}, left |-> {}, since |-> EmptyFn]
  /\ job_dir = EmptyFn
  /\ producer = ProducerIdle
  /\ consumer = ConsumerStart
  /\ results_file = <<>>
  /\ ocr_rows = <<>>
  /\ ocr_log = [processed |-> EmptyFn, skipped |-> {}, torn |-> {}, crashes |-> 0]
  /\ loaded_cmd = NoFile

(***************************************************************************)
(* The counting loop with its operator and its stores                      *)
(***************************************************************************)
\* a vehicle state left by an earlier run
ExitedBefore == (1 :> [has_entered |-> TRUE, has_exited |-> TRUE])

\* what an earlier run, or somebody else, left in the two stores
Persisted ==
  {<<FALSE, EmptyDb, CorruptFile>>,
   <<FALSE, EmptyDb, PersistedFile(79, 90, 11, EmptyFn)>>,
   <<FALSE, EmptyDb, PersistedFile(999, 0, 0, ExitedBefore)>>,
   <<TRUE, EmptyDb, PersistedFile(5, 7, 2, EmptyFn)>>,
   <<TRUE, PersistedDb(-3, 0, 0, ExitedBefore), NoFile>>}

Init == \E p \in Persisted : InitFrom(p[1], p[2], p[3])

\* the payloads found in the command file
Commands ==
  {Command("RESET_SYSTEM", 0, 0), Command("SET_OCCUPANCY", 200, 10),
   Command("FORCE_FULL", 0, -10), Command("FREEZE", 0, 0),
   Command("SET_OCCUPANCY", 40, 11)}

Keys == {<<"none", <<>>>>, <<"q", <<>>>>, <<"r", <<>>>>, <<"s", <<200>>>>}

Next ==
  \/ \E dt \in {0, 7} : frame_count < MaxFrames /\ now + dt <= MaxTime /\ ReadFrame(dt)
  \/ \E c \in Commands : used < MaxOps /\ SendCommand(c)
  \/ AdminStep
  \/ \E e \in Reports(ext, Arrivals({UpCourse, DownCourse}), MaxVehicles) :
        RunDetection(Detections(e), e)
  \/ TrackStep
  \/ EndTrack
  \/ ObserveStep("none")
  \/ Cleanup
  \/ \E k \in Keys : (k[1] # "none" => used < MaxOps) /\ KeyStep(k[1], k[2])

Spec == Init /\ [][Next]_vars

(***************************************************************************)
(* The loop with nothing in view: the operator's commands alone            *)
(***************************************************************************)
MaxAdminFrames == 3
MaxAdminOps == 2
MaxAdminTime == 11

InitAdmin ==
  \E p \in {<<FALSE, EmptyDb, PersistedFile(5, 7, 2, EmptyFn)>>,
            <<TRUE, PersistedDb(80, 90, 10, EmptyFn), NoFile>>} :
    InitFrom(p[1], p[2], p[3])

CommandNames == {"RESET_SYSTEM", "SET_OCCUPANCY", "FORCE_FULL", "FREEZE", "RESUME_AUTO"}

\* payloads of every name, known or not, of several ages, with values below,
\* in and above the range
AdminCommands ==
  {Command(n, 0, d) : n \in (CommandNames \ {"SET_OCCUPANCY"}) \cup {"SHUTDOWN"},
                      d \in {-11, -10, 0, 10, 11}}
  \cup {Command("SET_OCCUPANCY", v, d) : v \in {-5, 0, 40, 80, 81, 200},
                                         d \in {-11, -10, 0, 10, 11}}

NextAdmin ==
  \/ \E dt \in {0, 11} :
       frame_count < MaxAdminFrames /\ now + dt <= MaxAdminTime /\ ReadFrame(dt)
  \/ \E c \in AdminCommands : used < MaxAdminOps /\ SendCommand(c)
  \/ AdminStep
  \/ RunDetection(<<>>, ext)
  \/ Cleanup
  \/ KeyStep("none", <<>>)

SpecAdmin == InitAdmin /\ [][NextAdmin]_vars

(***************************************************************************)
(* The counting loop started on a state file with a long audit list        *)
(***************************************************************************)
\* the audit list n earlier saves left, oldest first
AuditOf(n) == [i \in 1..n |-> [ts |-> i - n - 1, occupancy |-> 5, reason |-> "event"]]

InitAudit ==
  \E n \in {OCCUPANCY_AUDIT_LIMIT - 1, OCCUPANCY_AUDIT_LIMIT} :
    InitFrom(FALSE, EmptyDb,
             [PersistedFile(5, 7, 2, EmptyFn) EXCEPT !.audit = AuditOf(n)])

SpecAudit == InitAudit /\ [][Next]_vars

(***************************************************************************)
(* The loop with a command file that anybody may have written              *)
(***************************************************************************)
\* what the loop can find in the command file: the dashboard's payloads, fresh,
\* stale or of an unknown name, and content json.load cannot read
FoundCommands ==
  {Command(n, 40, d) : n \in {"SET_OCCUPANCY", "FREEZE", "SHUTDOWN"}, d \in {0, 11}}
  \cup {CorruptFile}

NextFound ==
  \/ \E dt \in {0, 11} :
       frame_count < MaxAdminFrames /\ now + dt <= MaxAdminTime /\ ReadFrame(dt)
  \/ \E c \in FoundCommands : used < MaxAdminOps /\ SendCommand(c)
  \/ AdminStep
  \/ RunDetection(<<>>, ext)
  \/ Cleanup
  \/ KeyStep("none", <<>>)

SpecFound == InitAdmin /\ [][NextFound]_vars

(***************************************************************************)
(* The loop with its commands while the remote store, which holds the      *)
(* snapshot of an earlier run, cannot be reached                           *)
(***************************************************************************)
InitOutage ==
  InitFrom(FALSE, PersistedDb(5, 7, 2, EmptyFn), PersistedFile(5, 7, 2, EmptyFn))

SpecOutage == InitOutage /\ [][NextAdmin]_vars

(***************************************************************************)
(* The loop and the dashboard as two processes: a command may be written   *)
(* at any moment, also between the loop's read and its os.remove           *)
(***************************************************************************)
RaceCommands ==
  {Command("SET_OCCUPANCY", v, 0) : v \in {40, 41}} \cup {Command("FREEZE", 0, 0)}

NextRace ==
  \/ \E dt \in {0, 11} :
       frame_count < MaxAdminFrames /\ now + dt <= MaxAdminTime /\ ReadFrame(dt)
  \/ \E c \in RaceCommands : used < MaxAdminOps /\ DashboardSend(c)
  \/ command_file = NoFile /\ AdminStep
  \/ AdminLoad
  \/ AdminRemove
  \/ RunDetection(<<>>, ext)
  \/ Cleanup
  \/ KeyStep("none", <<>>)

SpecRace == InitAdmin /\ [][NextRace]_vars

(***************************************************************************)
(* The loop with one vehicle crossing the frame                            *)
(***************************************************************************)
MaxCrossingFrames == 28

\* 10 frames at constant speed from y = 450 to y = 300, to the nearest pixel
ScenarioCourse == CourseOf(800, [i \in 1..10 |-> 450 - ((150 * (i - 1) + 4) \div 9)], "a")

\* up across the line, on to the top of the frame, and back down across it
TurnCourse == CourseOf(800, Leg(470, -15, 15) \o Leg(275, 15, 11), "a")

\* straight courses at constant speed, starting d0 pixels before the line:
\* upwards from below it, downwards from above it
StraightCourses ==
  {CourseOf(800, Leg(LINE_Y + d0, -step, n), "a") :
     d0 \in {50, 80, 100, 130, 200}, step \in {5, 10, 15, 20, 30}, n \in {10, 11, 14, 20, 27}}
  \cup
  {CourseOf(800, Leg(LINE_Y - d0, step, n), "b") :
     d0 \in {50, 80, 100, 130, 200}, step \in {5, 10, 15, 20, 30}, n \in {10, 11, 14, 20, 27}}

\* up to the line and across it, hesitating 25 pixels beyond it, back below it
\* and across it again for good
WobbleCourse ==
  CourseOf(800, Leg(470, -15, 7) \o <<375, 350, 335, 345, 380, 385, 390, 360, 335, 330>>,
           "a")

CrossingCourses == StraightCourses \cup {ScenarioCourse, TurnCourse, WobbleCourse}

InitCrossing == InitFrom(FALSE, EmptyDb, PersistedFile(5, 7, 2, EmptyFn))

NextCrossing ==
  \/ frame_count < MaxCrossingFrames /\ ReadFrame(7)
  \/ AdminStep
  \/ \E e \in Reports(ext, IF frame_count = 1 THEN CrossingCourses ELSE {}, 1) :
        RunDetection(Detections(e), e)
  \/ TrackStep
  \/ EndTrack
  \/ ObserveStep("none")
  \/ Cleanup
  \/ KeyStep("none", <<>>)

SpecCrossing == InitCrossing /\ [][NextCrossing]_vars

(***************************************************************************)
(* The loop with vehicles that are lost and new ones arriving near them    *)
(***************************************************************************)
MaxReassocFrames == 5
MaxReassocTime == 3
MaxReassocVehicles == 4

\* a vehicle standing away from the line for as long as the run lasts
AnchorCourse == CourseOf(200, Leg(100, 0, MaxReassocFrames + 1), "z")

\* vehicles seen for one frame only, at x = 800
GlimpseCourses == {CourseOf(800, <<y>>, "a") : y \in {400, 430, 440, 650}}

NextReassoc ==
  \/ \E dt \in {0, 3} :
        frame_count < MaxReassocFrames /\ now + dt <= MaxReassocTime /\ ReadFrame(dt)
  \/ AdminStep
  \/ \E e \in Reports(ext, IF frame_count = 1 THEN {AnchorCourse} ELSE GlimpseCourses,
                      MaxReassocVehicles) :
        RunDetection(Detections(e), e)
  \/ TrackStep
  \/ EndTrack
  \/ ObserveStep("none")
  \/ Cleanup
  \/ KeyStep("none", <<>>)

SpecReassoc == InitCrossing /\ [][NextReassoc]_vars

(***************************************************************************)
(* The same loop with two vehicles appearing in one frame                  *)
(***************************************************************************)
\* what the upstream tracker can report when two vehicles appear at once
PairReports(e, cs, maxv) ==
  LET n == Cardinality(DOMAIN e)
  IN {Put(Put(Advance(e), n + 1, [course |-> c1, k |-> 1]),
          n + 2, [course |-> c2, k |-> 1]) :
        c1 \in {c \in cs : n + 2 <= maxv}, c2 \in cs}

\* a vehicle seen for two frames at x = 800
StayCourse == CourseOf(800, <<400, 400>>, "a")

NextPair ==
  \/ \E dt \in {0, 3} :
        frame_count < MaxReassocFrames /\ now + dt <= MaxReassocTime /\ ReadFrame(dt)
  \/ AdminStep
  \/ \E e \in Reports(ext, IF frame_count = 1 THEN {AnchorCourse}
                           ELSE IF frame_count = 2 THEN GlimpseCourses
                           ELSE {StayCourse},
                      MaxReassocVehicles)
              \cup PairReports(ext, IF frame_count <= 3 THEN {} ELSE GlimpseCourses,
                               MaxReassocVehicles) :
        RunDetection(Detections(e), e)
  \/ TrackStep
  \/ EndTrack
  \/ ObserveStep("none")
  \/ Cleanup
  \/ KeyStep("none", <<>>)

SpecPair == InitCrossing /\ [][NextPair]_vars

(***************************************************************************)
(* The loop running long enough for a lost id to age past TRACK_BUFFER,    *)
(* with a vehicle in view in every frame                                   *)
(***************************************************************************)
MaxAgedFrames == 96

\* a vehicle standing away from the line from the first frame to the last
StandingCourse == CourseOf(200, Leg(100, 0, MaxAgedFrames + 1), "z")

\* a vehicle stands in view throughout; others are seen for one frame, one
\* early and the next ones once the first has been lost for TRACK_BUFFER frames
AgedReports ==
  IF frame_count = 1
  THEN {Put(Advance(ext), Cardinality(DOMAIN ext) + 1, [course |-> StandingCourse, k |-> 1])}
  ELSE IF frame_count = 2 \/ frame_count > TRACK_BUFFER + 2
       THEN Reports(ext, GlimpseCourses, MaxReassocVehicles)
       ELSE {Advance(ext)}

NextAged ==
  \/ frame_count < MaxAgedFrames /\ ReadFrame(IF frame_count = 3 THEN 3 ELSE 0)
  \/ AdminStep
  \/ \E e \in AgedReports : RunDetection(Detections(e), e)
  \/ TrackStep
  \/ EndTrack
  \/ ObserveStep("none")
  \/ Cleanup
  \/ KeyStep("none", <<>>)

SpecAged == InitCrossing /\ [][NextAged]_vars

(***************************************************************************)
(* The loop with callers of the lifecycle store                            *)
(***************************************************************************)
MaxLifeFrames == 2
MaxLifeUpdates == 3

\* a call of occupancy_store.update_vehicle_state from the process of the loop
UpdateVehicleState(track_id, has_entered, has_exited) ==
  /\ pc = "read"
  /\ LET r == update_vehicle_state(vs_cache, db_up, db, state_file, track_id,
                                   has_entered, has_exited, now)
     IN /\ vs_cache' = r.cache
        /\ state_file' = r.state_file
        /\ obs' = [step |-> "update", id |-> track_id, has_entered |-> has_entered,
                   has_exited |-> has_exited, raised |-> r.raised,
                   cache_pre |-> LoadedCache(vs_cache, db_up, db, state_file),
                   file_pre |-> state_file]
  /\ used' = used + 1
  /\ UNCHANGED <<adminVars, histVars, ocrVars>>
  /\ UNCHANGED <<pc, frame_count, now, warmup_end, ledgerVars, command_file, db_up, db,
                 ocr_jobs, emVars, trackerVars, lifeVars, frameVars, ext, tally,
                 startup>>

\* what an earlier run left in the two stores
PersistedLife ==
  {<<FALSE, EmptyDb, NoFile>>,
   <<FALSE, EmptyDb, PersistedFile(5, 7, 2, ExitedBefore)>>,
   <<TRUE, PersistedDb(5, 7, 2, (2 :> [has_entered |-> TRUE, has_exited |-> FALSE])),
     CorruptFile>>}

InitLife == \E p \in PersistedLife : InitFrom(p[1], p[2], p[3])

Flag == {<<>>, <<TRUE>>, <<FALSE>>}

NextLife ==
  \/ frame_count < MaxLifeFrames /\ ReadFrame(7)
  \/ \E id \in {1, 2} : \E he \in Flag : \E hx \in Flag :
        used < MaxLifeUpdates /\ UpdateVehicleState(id, he, hx)
  \/ AdminStep
  \/ \E e \in Reports(ext, IF frame_count = 1 THEN {DownCourse} ELSE {}, 1) :
        RunDetection(Detections(e), e)
  \/ TrackStep
  \/ EndTrack
  \/ ObserveStep("none")
  \/ Cleanup
  \/ \E k \in {"none", "q", "r"} : (k # "none" => used < MaxLifeUpdates) /\ KeyStep(k, <<>>)

SpecLife == InitLife /\ [][NextLife]_vars

(***************************************************************************)
(* The loop running on after its vehicles have left                        *)
(***************************************************************************)
MaxCleanupFrames == 18

\* an earlier run left id 1 entered and exited, id 2 entered only
InitCleanup ==
  InitFrom(FALSE, EmptyDb,
           PersistedFile(5, 7, 2, (1 :> [has_entered |-> TRUE, has_exited |-> TRUE])
                                    @@ (2 :> [has_entered |-> TRUE, has_exited |-> FALSE])))

NextCleanup ==
  \/ frame_count < MaxCleanupFrames /\ ReadFrame(0)
  \/ AdminStep
  \/ \E e \in Reports(ext, IF frame_count <= 3
                           THEN {CourseOf(800, <<430>>, "a"), CourseOf(800, <<430, 440>>, "a")}
                           ELSE {}, 2) :
        RunDetection(Detections(e), e)
  \/ TrackStep
  \/ EndTrack
  \/ ObserveStep("none")
  \/ Cleanup
  \/ KeyStep("none", <<>>)

SpecCleanup == InitCleanup /\ [][NextCleanup]_vars

(***************************************************************************)
(* The loop with an operator freezing and unfreezing around a crossing     *)
(***************************************************************************)
MaxFrozenFrames == 12
MaxFrozenOps == 2

FrozenCommands ==
  {Command(name, 40, 0) :
     name \in {"FREEZE", "FORCE_FULL", "RESUME_AUTO", "RESET_SYSTEM", "SET_OCCUPANCY"}}
  \cup {Command("RESUME_AUTO", 0, 11)}

FrozenKeys == {<<"none", <<>>>>, <<"r", <<>>>>, <<"s", <<40>>>>, <<"s", <<>>>>}

\* the operator acts in the frames around the crossing, the warm-up is over
\* with the first frame
NextFrozen ==
  \/ frame_count < MaxFrozenFrames /\ ReadFrame(IF frame_count = 0 THEN 7 ELSE 0)
  \/ \E c \in FrozenCommands :
        used < MaxFrozenOps /\ frame_count >= MaxFrozenFrames - 3 /\ SendCommand(c)
  \/ AdminStep
  \/ \E e \in Reports(ext, IF frame_count = 1 THEN {UpCourse, DownCourse} ELSE {}, 1) :
        RunDetection(Detections(e), e)
  \/ TrackStep
  \/ EndTrack
  \/ ObserveStep("none")
  \/ Cleanup
  \/ \E k \in FrozenKeys :
        /\ k[1] # "none" => used < MaxFrozenOps /\ frame_count >= MaxFrozenFrames - 3
        /\ KeyStep(k[1], k[2])

SpecFrozen == InitCrossing /\ [][NextFrozen]_vars

(***************************************************************************)
(* The loop with one vehicle moving in and out of the plate region         *)
(***************************************************************************)
MaxRoiFrames == 15
MaxRoiOps == 1

\* Centres at x = 800 of a box 60 high, against the region's 396..608:
\* y = 100 no overlap, 390 and 600 partial overlap only, 420 fully inside by
\* the margin but not within the region, 500 within the region.
\* A course approaches, is away for n1 frames, may come back, is away for n2
\* frames and is seen once or twice more.
RoiCourses ==
  {CourseOf(800, a \o Leg(100, 0, n1) \o b \o Leg(100, 0, n2) \o c, "a") :
     a \in {<<390, 420>>, <<390, 500, 500>>, <<600, 500, 500>>},
     n1 \in {ROI_MISSED_TOLERANCE, ROI_MISSED_TOLERANCE + 1},
     b \in {<<>>, <<500>>},
     n2 \in {ROI_MISSED_TOLERANCE, ROI_MISSED_TOLERANCE + 1},
     c \in {<<500, 500>>, <<390>>}}

NextRoi ==
  \/ frame_count < MaxRoiFrames /\ ReadFrame(0)
  \/ AdminStep
  \/ \E e \in Reports(ext, IF frame_count = 1 THEN RoiCourses ELSE {}, 1) :
        RunDetection(Detections(e), e)
  \/ TrackStep
  \/ EndTrack
  \/ \E fault \in {"none", "entry", "locked"} :
        (fault # "none" => used < MaxRoiOps) /\ ObserveStep(fault)
  \/ Cleanup
  \/ \E k \in {"none", "r"} : (k # "none" => used < MaxRoiOps) /\ KeyStep(k, <<>>)

SpecRoi == InitCrossing /\ [][NextRoi]_vars

(***************************************************************************)
(* The loop with one vehicle moving sideways at the height of the plate    *)
(* region                                                                  *)
(***************************************************************************)
\* Centres at y = 500 of a box 100 wide and 60 high, within the region's
\* 396..608 in y; against its 708..1071 in x, x = 700 and 800 overlap and
\* x = 600 does not.
SideCourses ==
  {[x |-> xs[1], xs |-> xs, ys |-> [i \in 1..Len(xs) |-> 500], feat |-> "a"] :
     xs \in {<<700, 600, 600>>, <<800, 700, 600, 600>>, <<600, 600, 700, 600, 600>>,
             <<600, 600, 600>>}}

NextSide ==
  \/ frame_count < MaxRoiFrames /\ ReadFrame(0)
  \/ AdminStep
  \/ \E e \in Reports(ext, IF frame_count = 1 THEN SideCourses ELSE {}, 1) :
        RunDetection(Detections(e), e)
  \/ TrackStep
  \/ EndTrack
  \/ ObserveStep("none")
  \/ Cleanup
  \/ KeyStep("none", <<>>)

SpecSide == InitCrossing /\ [][NextSide]_vars

(***************************************************************************)
(* The writer of OCR jobs and the consumer process side by side            *)
(***************************************************************************)
MaxJobs == 2
MaxCrashes == 1

\* the vehicle states fire_ocr_job is called with: one buffered frame
FiringStates ==
  {[VehicleState(id, he, FALSE) EXCEPT !.ocr_frame_buffer = 1, !.ocr_fired = TRUE] :
     id \in 1..MaxJobs, he \in BOOLEAN}

mainVars == <<pc, frame_count, now, warmup_end, ledgerVars, fileVars, emVars,
              trackerVars, lifeVars, frameVars, ext, used, tally, startup, obs,
              storeVars, histVars, adminVars>>

NextOcr ==
  /\ UNCHANGED mainVars
  /\ \/ \E vs \in FiringStates : FireFrames(vs)
     \/ FireOpen
     \/ FireDump
     \/ Scan
     \/ \E plate \in {"None", "KA01AB1234"} : ProcessOpen(plate)
     \/ ProcessWrite
     \/ RecordRemote
     \/ RecordLocal
     \/ \E moved \in BOOLEAN : MoveJob(moved)
     \/ ocr_log.crashes < MaxCrashes /\ Restart

InitOcr ==
  \E up \in BOOLEAN : InitFrom(up, EmptyDb, PersistedFile(5, 7, 2, EmptyFn))

SpecOcr == InitOcr /\ [][NextOcr]_vars

(***************************************************************************)
(* Properties of the counting loop                                         *)
(***************************************************************************)
InRange(occ) == 0 <= occ /\ occ <= MAX_CAPACITY

\* C1: in every state of the counting loop, and in every snapshot and audit
\* record save_occupancy has written (to the local file or to the remote
\* store), 0 <= occupancy <= max_capacity.
C1_OccupancyInRange ==
  /\ InRange(occupancy)
  /\ (IsRecordFile(state_file) /\ state_file.audit # <<>>) =>
       /\ InRange(state_file.occupancy)
       /\ \A i \in 1..Len(state_file.audit) : InRange(state_file.audit[i].occupancy)
  /\ db.audit_log # <<>> =>
       /\ InRange(db.snapshot.occupancy)
       /\ \A i \in 1..Len(db.audit_log) : InRange(db.audit_log[i].occupancy)

\* an exit has just been counted with nobody inside, and saved
C1_Witness ==
  /\ obs.step = "track" /\ obs.saved = "exit"
  /\ obs.pre[1] = 0
  /\ occupancy = 0
  /\ state_file.occupancy = 0 /\ state_file.reason = "exit"

\* C2: a canonical id increments entry_count at most once and exit_count at
\* most once, whatever the frames, commands and resets; and the observation
\* of an id whose entry (exit) is already finalized never increments
\* entry_count (exit_count).
C2_AtMostOncePerId ==
  /\ \A id \in DOMAIN tally : tally[id].entry <= 1 /\ tally[id].exit <= 1
  /\ obs.step = "track" =>
       /\ "entry" \in obs.finalized_pre => obs.saved # "entry"
       /\ "exit" \in obs.finalized_pre => obs.saved # "exit"

\* an id whose entry was finalized and counted comes back below the line and
\* crosses it upwards again
C2_Witness ==
  /\ obs.step = "track"
  /\ "entry" \in obs.finalized_pre
  /\ tally[obs.id].entry = 1
  /\ LET ph == position_history[obs.id]
     IN /\ Len(ph) >= 2
        /\ ph[Len(ph) - 1][2] > LINE_Y
        /\ ph[Len(ph)][2] < LINE_Y

\* C5: when the occupancy read at load is out of range, the loop starts with
\* the occupancy at a bound of the range and frozen, and stays frozen until
\* a RESET_SYSTEM or SET_OCCUPANCY command is applied.
C5_FrozenAfterBadLoad ==
  (startup.raw # <<>> /\ ~InRange(startup.raw[1]) /\ ~startup.override) =>
     /\ frozen
     /\ frame_count = 0 => occupancy = Clamp(startup.raw[1])

\* C9: the observer step leaves the vehicle's has_entered and has_exited and
\* the ledger's occupancy, entry_count and exit_count as they were.
C9_ObserverIsolation ==
  obs.step = "observe" =>
     /\ obs.id \in DOMAIN vehicle_states
     /\ <<vehicle_states[obs.id].has_entered,
          vehicle_states[obs.id].has_exited>> = obs.flags_pre
     /\ <<occupancy, entry_count, exit_count, frozen>> = obs.pre

\* the observer has just fired the capture of a vehicle inside the region
C9_Witness ==
  /\ obs.step = "observe" /\ obs.fired
  /\ vehicle_states[obs.id].roi_fsm_state = "INSIDE"
  /\ vehicle_states[obs.id].ocr_fired
  /\ ~vehicle_states[obs.id].has_entered

\* the command the admin step has just read is younger than the limit
FreshCommand == Abs(now - obs.cmd.ts) <= STALE_SECS

\* C6: a SET_OCCUPANCY command with a fresh timestamp and any integer value v
\* leaves occupancy = min(max(v, 0), max_capacity), frozen = false, the two
\* counters as they were, and is reported applied.
C6_SetOccupancy ==
  (/\ obs.step = "admin" /\ IsRecordFile(obs.cmd)
   /\ obs.cmd.command = "SET_OCCUPANCY" /\ FreshCommand) =>
     /\ occupancy = Min(Max(obs.cmd.value, 0), MAX_CAPACITY)
     /\ ~frozen
     /\ entry_count = obs.pre[2] /\ exit_count = obs.pre[3]
     /\ updated

\* value 200 has just been applied to a frozen ledger with counts
C6_Witness ==
  /\ obs.step = "admin" /\ IsRecordFile(obs.cmd)
  /\ obs.cmd.command = "SET_OCCUPANCY" /\ FreshCommand
  /\ obs.cmd.value = 200 /\ occupancy = 80
  /\ obs.pre[4] /\ obs.pre[1] # 80
  /\ entry_count > 0 /\ exit_count > 0

\* C7: a command that is stale (|now - ts| > 10) or whose name is not known
\* leaves occupancy, entry_count, exit_count and frozen as they were, is
\* reported not applied, and nothing is saved for it.
C7_RejectedCommand ==
  (/\ obs.step = "admin" /\ IsRecordFile(obs.cmd)
   /\ (~FreshCommand \/ obs.cmd.command \notin CommandNames)) =>
     /\ <<occupancy, entry_count, exit_count, frozen>> = obs.pre
     /\ ~updated
     /\ state_file = obs.file_pre
     /\ db = obs.db_pre

\* a stale RESET_SYSTEM has just been read with vehicles inside and counts
C7_Witness ==
  /\ obs.step = "admin" /\ IsRecordFile(obs.cmd)
  /\ obs.cmd.command = "RESET_SYSTEM" /\ ~FreshCommand
  /\ occupancy > 0 /\ entry_count > 0 /\ frozen

(***************************************************************************)
(* Properties of the crossing state machine                                *)
(***************************************************************************)
\* the course of provisional id pid; in these runs no id is ever remapped
CourseYs(pid) == ext[pid].course.ys

\* every position of the course has been handed to process
Completed(pid) ==
  pid \in DOMAIN tally /\ tally[pid].seen = Len(CourseYs(pid))

MonotoneUp(ys) == \A i \in 1..(Len(ys) - 1) : ys[i + 1] <= ys[i]
MonotoneDown(ys) == \A i \in 1..(Len(ys) - 1) : ys[i + 1] >= ys[i]

\* ys goes monotonically from below the line to above it (or the other way)
\* and its last CONFIRM_FRAMES positions are MIN_DISPLACEMENT beyond the line
CrossesUp(ys) ==
  /\ Len(ys) > CONFIRM_FRAMES /\ MonotoneUp(ys) /\ ys[1] > LINE_Y
  /\ \A i \in (Len(ys) - CONFIRM_FRAMES + 1)..Len(ys) : LINE_Y - ys[i] >= MIN_DISPLACEMENT
CrossesDown(ys) ==
  /\ Len(ys) > CONFIRM_FRAMES /\ MonotoneDown(ys) /\ ys[1] < LINE_Y
  /\ \A i \in (Len(ys) - CONFIRM_FRAMES + 1)..Len(ys) : ys[i] - LINE_Y >= MIN_DISPLACEMENT

EventsOf(pid) == [i \in 1..Len(tally[pid].events) |-> tally[pid].events[i].evt]

ArmedInTimeUp(ys) ==
  /\ \A i \in 1..(Len(ys) - 1) : ys[i + 1] < ys[i]
  /\ \E c \in 2..Len(ys) :
       /\ ys[c - 1] > LINE_Y /\ ys[c] < LINE_Y
       /\ c - 1 >= DETECTED_MIN_FRAMES + ARM_MIN_FRAMES
       /\ ys[c - 1] - LINE_Y <= PRE_ZONE_PIXELS
       /\ Len(ys) >= c + CONFIRM_FRAMES
  /\ CrossesUp(ys)
ArmedInTimeDown(ys) ==
  /\ \A i \in 1..(Len(ys) - 1) : ys[i + 1] > ys[i]
  /\ \E c \in 2..Len(ys) :
       /\ ys[c - 1] < LINE_Y /\ ys[c] > LINE_Y
       /\ c - 1 >= DETECTED_MIN_FRAMES + ARM_MIN_FRAMES
       /\ LINE_Y - ys[c - 1] <= PRE_ZONE_PIXELS
       /\ Len(ys) >= c + CONFIRM_FRAMES
  /\ CrossesDown(ys)

ScenarioDone(pid) ==
  /\ ext[pid].course = ScenarioCourse /\ Completed(pid)
  /\ now >= warmup_end

RECURSIVE FreshEvents(_, _, _)
FreshEvents(hist, k, st) ==
  IF k > Len(hist) THEN {}
  ELSE LET r == process(st, 0, hist[k][2], SubSeq(hist, 1, k), k)
       IN (IF r.evt = "None" THEN {} ELSE {r.evt}) \cup FreshEvents(hist, k + 1, r.state)

Opposite(evt) == IF evt = "entry" THEN "exit" ELSE "entry"

\* C10: after an id has finalized one direction, a later crossing in the
\* opposite direction that qualifies (a machine starting afresh on the
\* observations made since would return it) is finalized and returned for
\* that id as well.
C10_OppositeCrossingReturned ==
  \A id \in DOMAIN tally :
    Len(tally[id].events) >= 1 =>
      LET first == tally[id].events[1]
          since == SubSeq(position_history[id], first.at + 1, Len(position_history[id]))
      IN Opposite(first.evt) \in FreshEvents(since, 1, EmptyFn) =>
           /\ Opposite(first.evt) \in em_state[id].finalized
           /\ \E i \in 1..Len(tally[id].events) : tally[id].events[i].evt = Opposite(first.evt)

(***************************************************************************)
(* Properties of the tracklet buffer                                       *)
(***************************************************************************)
\* the tracklets of buf that have not expired at time t and whose last
\* position is within MAX_REASSOC_DISTANCE of pos
Live(buf, pos, t) ==
  {k \in DOMAIN buf :
     /\ t - buf[k].last_time <= LOST_BUFFER_SECS
     /\ Len(buf[k].positions) > 0
     /\ LET q == buf[k].positions[Len(buf[k].positions)]
        IN (pos[1] - q[1]) * (pos[1] - q[1]) + (pos[2] - q[2]) * (pos[2] - q[2])
             <= MAX_REASSOC_DISTANCE * MAX_REASSOC_DISTANCE}

\* there are two of them, b with the best score and s with the best score
\* of the others, and the score of s is at least 85% of the score of b
SecondWithin85(buf, pos, t) ==
  LET L == Live(buf, pos, t)
      sc(k) == CandidateScore(buf, k, pos)
  IN \E b \in L : \E s \in L \ {b} :
       /\ \A k \in L : ~ScoreGT(sc(k), sc(b))
       /\ \A k \in L \ {b} : ~ScoreGT(sc(k), sc(s))
       /\ ScoreGE85(sc(s), sc(b))

\* C8: reassociate returns none (and leaves the buffer as it is) whenever at
\* least two non-expired tracklets within the maximum distance exist and the
\* second-best blended score is at least 85% of the best.
C8_AmbiguityGuard ==
  (/\ obs.step = "track" /\ obs.reassociate.called
   /\ SecondWithin85(obs.buffer_pre, obs.centre, now))
  => /\ obs.reassociate.match = <<>>
     /\ buffer = obs.buffer_pre

\* a new vehicle 30 and 40 pixels from two lost ones is given to neither
C8_Witness ==
  /\ obs.step = "track" /\ obs.reassociate.called
  /\ Cardinality(Live(obs.buffer_pre, obs.centre, now)) = 2
  /\ SecondWithin85(obs.buffer_pre, obs.centre, now)
  /\ \A k \in DOMAIN obs.buffer_pre :
       CandidateScore(obs.buffer_pre, k, obs.centre)[1] \in {3120, 2960}
  /\ obs.reassociate.match = <<>>

(***************************************************************************)
(* Properties of the lifecycle table                                       *)
(***************************************************************************)
ExitImpliesEntry(tbl) == \A id \in DOMAIN tbl : tbl[id].has_exited => tbl[id].has_entered

\* the values an update asks for, given the record it finds
Asked(flag, found) == IF flag = <<>> THEN found ELSE flag[1]
FoundIn(tbl, id) ==
  IF id \in DOMAIN tbl THEN tbl[id] ELSE [has_entered |-> FALSE, has_exited |-> FALSE]

\* C11: every record with has_exited also has has_entered, in the table of
\* the loop, in the cache of the store and in what is persisted; an
\* update_vehicle_state that would make has_exited true with has_entered false
\* raises and leaves cache and file as they were.
C11_ExitOnlyAfterEntry ==
  /\ ExitImpliesEntry(vehicle_states)
  /\ vs_cache # None => ExitImpliesEntry(vs_cache.table)
  /\ IsRecordFile(state_file) => ExitImpliesEntry(state_file.vehicle_states)
  /\ ExitImpliesEntry(db.vehicle_states)
  /\ obs.step = "update" =>
       LET found == FoundIn(obs.cache_pre.table, obs.id)
           bad == /\ Asked(obs.has_exited, found.has_exited)
                  /\ ~Asked(obs.has_entered, found.has_entered)
       IN /\ obs.raised = bad
          /\ bad => vs_cache = obs.cache_pre /\ state_file = obs.file_pre

\* has_entered = False was asked for a record that has entered and exited
C11_Witness ==
  /\ obs.step = "update" /\ obs.raised
  /\ obs.has_entered = <<FALSE>> /\ obs.has_exited = <<>>
  /\ FoundIn(obs.cache_pre.table, obs.id).has_exited
  /\ vs_cache = obs.cache_pre

\* C12: the cleanup of the loop deletes a record only when its has_exited is
\* true and the id has been missing for at least MAX_MISSING frames, this
\* one included; a record whose has_exited is false is never deleted there.
C12_CleanupKeepsUnexited ==
  [][pc = "cleanup" =>
       \A tid \in DOMAIN vehicle_states :
         tid \notin DOMAIN vehicle_states' =>
           /\ vehicle_states[tid].has_exited
           /\ \A i \in 1..Len(current_frame_ids) : current_frame_ids[i] # tid
           /\ tid \in DOMAIN missing_frames
           /\ missing_frames[tid] + 1 >= MAX_MISSING]_vars

\* id 1 has been deleted; id 2, missing as long or longer, is still there
C12_Witness ==
  /\ 1 \notin DOMAIN vehicle_states
  /\ 2 \in DOMAIN vehicle_states /\ ~vehicle_states[2].has_exited
  /\ missing_frames[2] > MAX_MISSING

\* C13: when reassociate returns an id, that id's entry, and no other, is
\* removed from the buffer; when it returns none the buffer is unchanged; no
\* id has been returned more often than add_lost has stored it.
C13_ConsumedOnce ==
  /\ (obs.step = "track" /\ obs.reassociate.called) =>
       IF obs.reassociate.match = <<>> THEN buffer = obs.buffer_pre
       ELSE /\ obs.reassociate.match[1] \in DOMAIN obs.buffer_pre
            /\ buffer = [k \in DOMAIN obs.buffer_pre \ {obs.reassociate.match[1]} |->
                           obs.buffer_pre[k]]
  /\ \A id \in DOMAIN lost_log : lost_log[id].returned <= lost_log[id].added

\* a lost id has been returned while another lost one stays in the buffer
C13_Witness ==
  /\ obs.step = "track" /\ obs.reassociate.called
  /\ obs.reassociate.match # <<>>
  /\ Cardinality(DOMAIN obs.buffer_pre) = 2
  /\ Cardinality(DOMAIN buffer) = 1
  /\ lost_log[obs.reassociate.match[1]].returned = 1

(***************************************************************************)
(* Properties of the administrative commands and of freezing               *)
(***************************************************************************)
\* C14: a fresh RESET_SYSTEM leaves occupancy = entry_count = exit_count = 0
\* and frozen = false; a fresh FORCE_FULL leaves occupancy = max_capacity and
\* frozen = true with the counters as they were; a fresh FREEZE leaves frozen
\* = true and a fresh RESUME_AUTO frozen = false, both with occupancy and the
\* counters as they were; each is reported applied.
C14_CommandEffects ==
  (obs.step = "admin" /\ IsRecordFile(obs.cmd) /\ FreshCommand) =>
    /\ obs.cmd.command = "RESET_SYSTEM" =>
         <<occupancy, entry_count, exit_count, frozen, updated>> = <<0, 0, 0, FALSE, TRUE>>
    /\ obs.cmd.command = "FORCE_FULL" =>
         <<occupancy, entry_count, exit_count, frozen, updated>>
           = <<MAX_CAPACITY, obs.pre[2], obs.pre[3], TRUE, TRUE>>
    /\ obs.cmd.command = "FREEZE" =>
         <<occupancy, entry_count, exit_count, frozen, updated>>
           = <<obs.pre[1], obs.pre[2], obs.pre[3], TRUE, TRUE>>
    /\ obs.cmd.command = "RESUME_AUTO" =>
         <<occupancy, entry_count, exit_count, frozen, updated>>
           = <<obs.pre[1], obs.pre[2], obs.pre[3], FALSE, TRUE>>

\* FORCE_FULL has just been applied to a ledger that was neither full nor frozen
C14_Witness ==
  /\ obs.step = "admin" /\ IsRecordFile(obs.cmd) /\ FreshCommand
  /\ obs.cmd.command = "FORCE_FULL"
  /\ obs.pre[1] < MAX_CAPACITY /\ ~obs.pre[4]
  /\ occupancy = MAX_CAPACITY /\ frozen /\ entry_count > 0

\* C15: a snapshot saved while the ledger is frozen, such as the one written
\* after a FORCE_FULL or FREEZE command, carries frozen = true in the local
\* file and in the remote snapshot.
C15_FrozenInSnapshot ==
  (obs.step = "admin" /\ updated /\ frozen) =>
    /\ "frozen" \in DOMAIN state_file /\ state_file.frozen
    /\ db_up => db.snapshot.frozen

\* C16: while the warm-up has not elapsed, an entry or exit returned by the
\* crossing state machine changes none of occupancy, entry_count and
\* exit_count, writes nothing to the local file or the remote store, and
\* marks no id as counted.
C16_WarmupIgnores ==
  (obs.step = "track" /\ obs.evt \in {"entry", "exit"} /\ now < warmup_end) =>
    /\ <<occupancy, entry_count, exit_count>> = <<obs.pre[1], obs.pre[2], obs.pre[3]>>
    /\ state_file = obs.file_pre
    /\ db = obs.db_pre
    /\ counted = obs.counted_pre

\* an entry that would have been counted has just been returned in warm-up
C16_Witness ==
  /\ obs.step = "track" /\ obs.evt = "entry" /\ now < warmup_end
  /\ ~frozen /\ occupancy < MAX_CAPACITY /\ obs.id \notin DOMAIN counted

\* C17: while frozen is true no step of the per-detection loop, whatever
\* event it gets, changes occupancy, entry_count or exit_count; and frozen
\* becomes false only by an applied RESET_SYSTEM, SET_OCCUPANCY or RESUME_AUTO
\* command or by the operator's reset or set key.
C17_FrozenHolds ==
  [][frozen =>
       /\ pc = "track" =>
            <<occupancy', entry_count', exit_count'>> = <<occupancy, entry_count, exit_count>>
       /\ ~frozen' =>
            \/ /\ obs'.step = "admin" /\ updated'
               /\ obs'.cmd.command \in {"RESET_SYSTEM", "SET_OCCUPANCY", "RESUME_AUTO"}
            \/ /\ obs'.step = "key"
               /\ obs'.key = "r" \/ (obs'.key = "s" /\ obs'.val # <<>>)]_vars

\* an exit has just been returned for an id not yet counted while the ledger
\* was frozen with vehicles inside, and left the ledger as it was
C17_Witness ==
  /\ obs.step = "track" /\ obs.evt = "exit" /\ now >= warmup_end
  /\ frozen /\ obs.pre[4]
  /\ occupancy > 0 /\ obs.id \notin DOMAIN counted
  /\ <<occupancy, entry_count, exit_count>> = <<obs.pre[1], obs.pre[2], obs.pre[3]>>

(***************************************************************************)
(* Properties of the OCR job directory                                     *)
(***************************************************************************)
Published(j) ==
  /\ j \in DOMAIN job_dir
  /\ ~(producer.pc \in {"frames", "writing"} /\ producer.vs.id = j)

Recorded(j) ==
  \/ \E i \in 1..Len(results_file) : results_file[i].track_id = j
  \/ \E i \in 1..Len(ocr_rows) :
        ocr_rows[i].track_id = j /\ ocr_rows[i].plate_text # "None"

StillPending(j) ==
  /\ job_dir[j].place = "jobs"
  /\ IsMeta(job_dir[j].meta)
  /\ job_dir[j].meta.status = "pending"

\* C18: under every interleaving of fire_ocr_job with the consumer's scan, the
\* scan never reads a metadata.json that its writer has opened and not yet
\* finished writing.
C18_NeverReadsPartial == ocr_log.torn = {}

\* C19: once process_job has completed for a job, no later scan selects that
\* job again, also when the move to processed/ failed or the consumer was
\* restarted: no job completes processing twice, and the jobs a scan has
\* selected and the consumer has not started on were never processed.
C19_ProcessedOnce ==
  /\ \A j \in DOMAIN ocr_log.processed : ocr_log.processed[j] <= 1
  /\ consumer.pc = "pick" =>
       \A i \in 1..Len(consumer.pending) :
          consumer.pending[i] \notin DOMAIN ocr_log.processed

\* a job was processed, its move failed, the consumer was restarted and a
\* later scan read the job's metadata and passed over it
C19_Witness ==
  \E j \in DOMAIN job_dir :
     /\ j \in ocr_log.skipped
     /\ j \in DOMAIN ocr_log.processed
     /\ job_dir[j].place = "jobs"
     /\ ocr_log.crashes >= 1

\* C20: whenever the consumer is not handling any job (it is about to scan,
\* after a restart or after finishing), every published job whose result was
\* recorded neither remotely nor in the local results file still has status
\* pending under ocr_jobs/, so the next scan processes it.
C20_PendingAfterInterrupt ==
  consumer.pc = "scan" =>
    \A j \in DOMAIN job_dir : Published(j) /\ ~Recorded(j) => StillPending(j)

(***************************************************************************)
(* Properties of the identity resolver across frames                       *)
(***************************************************************************)
\* C21: when the handling of a frame's detections is over, every id that was
\* present in the frame before and is absent in this one is in lost_tracks and
\* in the tracklet buffer, stored in this frame with its feature and position
\* history; also when this frame has no detections.
C21_PushedWhenLeft ==
  pc = "cleanup" =>
    \A id \in absence.left :
       /\ id \in LostIds(lost_tracks)
       /\ id \in DOMAIN buffer
       /\ buffer[id].last_time = now
       /\ buffer[id].positions = GetSeq(position_history, id)
       /\ buffer[id].features = GetSeq(feature_history, id)

\* C22: reassociate returns no id that has been absent for longer than the
\* keep-alive window, counted from the first frame the id was absent in; and
\* the timestamp cached for an absent id is that of its first frame of
\* absence, never a later one.
C22_DestroyedAfterKeepAlive ==
  /\ obs.step = "track" /\ obs.reassociate.match # <<>> =>
       LET id == obs.reassociate.match[1]
       IN id \in DOMAIN absence.since => now - absence.since[id] <= LOST_BUFFER_SECS
  /\ \A id \in DOMAIN buffer \cap DOMAIN absence.since :
        buffer[id].last_time = absence.since[id]

(***************************************************************************)
(* Properties of the command file                                          *)
(***************************************************************************)
\* C23: when check_admin_commands has run with a command file present, the
\* file is gone afterwards, whatever it held: an applied, a stale or an unknown
\* command, or content that cannot be read.
C23_CommandFileDeleted ==
  obs.step = "admin" /\ obs.cmd # NoFile => command_file = NoFile

(***************************************************************************)
(* Properties of the visibility state machine                              *)
(***************************************************************************)
\* C24: an observer task in which observe_roi raised an exception leaves
\* occupancy, entry_count, exit_count, frozen and the state file as they were,
\* and the loop goes on with the next task or with the rest of the frame.
C24_ObserverFaultContained ==
  obs.step = "observe" /\ obs.fault # "none" =>
    /\ pc \in {"observe", "cleanup"}
    /\ <<occupancy, entry_count, exit_count, frozen>> = obs.pre
    /\ state_file = obs.file_pre

\* an exception was raised while the vehicle was INSIDE, with counts and
\* vehicles on the ledger
C24_Witness ==
  /\ obs.step = "observe" /\ obs.fault = "locked"
  /\ obs.vs_pre.roi_fsm_state = "INSIDE"
  /\ occupancy > 0 /\ entry_count > 0
  /\ pc = "cleanup"

\* the box of a centre has no overlap with the plate region
FullMiss(c) == ~_bbox_partially_inside(BoxAt(c[1], c[2]))

\* the observation just made is the K-th full miss in a row
KthMiss ==
  /\ obs.step = "observe" /\ obs.fault = "none"
  /\ obs.vs_pre.roi_fsm_missed = ROI_MISSED_TOLERANCE - 1
  /\ LET ph == GetSeq(position_history, obs.id)
     IN /\ Len(ph) >= ROI_MISSED_TOLERANCE
        /\ \A i \in 1..ROI_MISSED_TOLERANCE : FullMiss(ph[Len(ph) + 1 - i])

\* C26: the K-th full miss in a row of a vehicle that was INSIDE leaves it
\* EXITING, and the K-th full miss in a row since it became EXITING leaves it
\* DONE.
C26_LeavesOnKthMiss ==
  KthMiss =>
    /\ obs.vs_pre.roi_fsm_state = "INSIDE" => obs.vs.roi_fsm_state = "EXITING"
    /\ obs.vs_pre.roi_fsm_state = "EXITING" => obs.vs.roi_fsm_state = "DONE"

\* C27: an observer task never takes ocr_fired back, never raises it for a
\* vehicle that is DONE, and no track has more than one OCR job.
C27_OneShotCapture ==
  /\ obs.step = "observe" =>
       /\ obs.vs_pre.ocr_fired => obs.vs.ocr_fired
       /\ obs.vs_pre.roi_fsm_state = "DONE" => ~obs.fired /\ obs.vs.roi_fsm_state = "DONE"
  /\ \A id \in DOMAIN position_history :
        Cardinality({i \in 1..Len(ocr_jobs) : ocr_jobs[i].track_id = id}) <= 1

\* C28: after an observer task the locked direction of a vehicle whose capture
\* has not fired is unset, and the task that fires the capture leaves the
\* direction it was given as the locked one.
C28_LockedWithCapture ==
  obs.step = "observe" /\ obs.fault = "none" =>
    /\ ~obs.vs.ocr_fired => obs.vs.roi_direction_locked = "None"
    /\ obs.fired => obs.vs.roi_direction_locked = obs.vs_pre.direction

Beyond(evt, y) == IF evt = "entry" THEN LINE_Y - y ELSE y - LINE_Y

\* the side of the line y is on, as _side gives it
FarSide(evt, y) == IF evt = "entry" THEN y < LINE_Y ELSE ~(y < LINE_Y)

\* C25: every call of process that returned an event found the id CROSSED and
\* left it FINALIZED; that call and the CONFIRM_FRAMES - 1 calls before it were
\* made at least MIN_DISPLACEMENT beyond the line; the last CONFIRM_FRAMES
\* positions were on the far side; and calls that left the id APPROACHING,
\* ARMED and CROSSED came before it, in that order.
C25_EventOnlyWhenConfirmed ==
  \A id \in DOMAIN tally :
    LET calls == tally[id].calls
    IN \A n \in 1..Len(calls) :
         calls[n].evt # "None" =>
           /\ calls[n].pre = "CROSSED" /\ calls[n].post = "FINALIZED"
           /\ n >= CONFIRM_FRAMES
           /\ \A i \in 0..(CONFIRM_FRAMES - 1) :
                Beyond(calls[n].evt, calls[n - i].y) >= MIN_DISPLACEMENT
           /\ Len(calls[n].tail) = CONFIRM_FRAMES
           /\ \A i \in 1..CONFIRM_FRAMES : FarSide(calls[n].evt, calls[n].tail[i])
           /\ \E a, b, c \in 1..n :
                /\ a < b /\ b < c /\ c < n
                /\ calls[a].post = "APPROACHING"
                /\ calls[b].post = "ARMED"
                /\ calls[c].post = "CROSSED"

\* an exit was returned for an id that had been CROSSED before, had gone back
\* over the line and been ARMED again
C25_Witness ==
  \E id \in DOMAIN tally :
    LET calls == tally[id].calls
    IN \E m, n \in 1..Len(calls) :
         /\ m < n
         /\ calls[m].pre = "CROSSED" /\ calls[m].post = "ARMED"
         /\ calls[n].evt # "None"

(***************************************************************************)
(* Properties of the direction handed to the visibility state machine      *)
(***************************************************************************)
\* C30: in the step in which process returns an event for a vehicle, the
\* observer task queued for that vehicle carries the same direction: ENTRY with
\* an entry, EXIT with an exit.
C30_SameDirection ==
  obs.step = "track" /\ obs.evt # "None" =>
    /\ Len(observer_tasks) > 0
    /\ observer_tasks[Len(observer_tasks)][1] = obs.id
    /\ observer_tasks[Len(observer_tasks)][3] = (IF obs.evt = "entry" THEN "ENTRY" ELSE "EXIT")

(***************************************************************************)
(* Properties of the order of counting, saving and observing in a frame    *)
(***************************************************************************)
\* C31: a step of the admin phase or of the tracking phase that changes
\* occupancy, entry_count or exit_count leaves in the state file the record
\* save_occupancy writes for the new values, so the save precedes the next
\* detection; the observer phase is entered only from the tracking phase with
\* no detection left, is followed only by observer tasks or the cleanup, and
\* changes neither the ledger nor the state file.
C31_SavedThenObserved ==
  [][/\ (pc \in {"admin", "track"}
          /\ <<occupancy, entry_count, exit_count>>' # <<occupancy, entry_count, exit_count>>)
        => state_file' = SavedRecord(state_file, occupancy', entry_count', exit_count',
                                     IF pc = "admin" THEN "admin_command"
                                     ELSE IF entry_count' # entry_count THEN "entry"
                                     ELSE "exit",
                                     [list |-> vehicle_states'], now)
     /\ (pc' = "observe" /\ pc # "observe") => pc = "track" /\ dets = <<>>
     /\ pc = "observe" =>
          /\ dets = <<>> /\ pc' \in {"observe", "cleanup"}
          /\ frame_count' = frame_count
          /\ UNCHANGED <<occupancy, entry_count, exit_count, state_file, db>>]_vars

\* a counted crossing has just been saved, in a run in which an applied admin
\* command had been saved before
C31_Witness ==
  /\ obs.step = "track" /\ obs.saved # "None"
  /\ <<occupancy, entry_count, exit_count>> # <<obs.pre[1], obs.pre[2], obs.pre[3]>>
  /\ IsRecordFile(state_file) /\ state_file.reason = obs.saved
  /\ state_file.occupancy = occupancy
  /\ \E i \in 1..Len(state_file.audit) : state_file.audit[i].reason = "admin_command"

(***************************************************************************)
(* Properties of the audit list                                            *)
(***************************************************************************)
\* C32: the audit list of the state file never holds more than
\* OCCUPANCY_AUDIT_LIMIT records, and a step that changes anything but the
\* vehicle records of the file has put one record (the time of the save, the
\* saved occupancy, itself in range, and the saved reason) behind the earlier
\* ones, which keep their order and of which only the oldest is gone, and only
\* if the list was full.
C32_AuditBounded ==
  [][IsRecordFile(state_file) /\ IsRecordFile(state_file') =>
       LET old == state_file.audit
           new == state_file'.audit
           gone == Len(old) + 1 - Len(new)
       IN /\ Len(new) <= OCCUPANCY_AUDIT_LIMIT
          /\ [state_file' EXCEPT !.vehicle_states = EmptyFn]
                # [state_file EXCEPT !.vehicle_states = EmptyFn] =>
               /\ gone = (IF Len(old) = OCCUPANCY_AUDIT_LIMIT THEN 1 ELSE 0)
               /\ new[Len(new)] = [ts |-> now, occupancy |-> state_file'.occupancy,
                                    reason |-> state_file'.reason]
               /\ InRange(state_file'.occupancy)
               /\ \A i \in 1..(Len(new) - 1) : new[i] = old[i + gone]]_vars

\* a save has just dropped the oldest record of a full list
C32_Witness ==
  /\ obs.step \in {"admin", "track"}
  /\ IsRecordFile(state_file) /\ IsRecordFile(obs.file_pre)
  /\ Len(obs.file_pre.audit) = OCCUPANCY_AUDIT_LIMIT
  /\ Len(state_file.audit) = OCCUPANCY_AUDIT_LIMIT
  /\ state_file.audit # obs.file_pre.audit
  /\ state_file.audit[1] = obs.file_pre.audit[2]
  /\ state_file.audit[1].ts < 0 /\ state_file.audit[OCCUPANCY_AUDIT_LIMIT - 1].ts >= 0

(***************************************************************************)
(* Properties of the identity resolution within and across frames          *)
(***************************************************************************)
\* C33: the canonical ids resolved for the detections of one frame, whose
\* provisional ids are distinct, are distinct.
C33_DistinctCanonicalIds ==
  \A i, j \in 1..Len(current_frame_ids) :
     i # j => current_frame_ids[i] # current_frame_ids[j]

\* C34: a detection whose provisional id has been mapped to a canonical id by
\* match_lost_track is resolved to that canonical id.
C34_MappingKept ==
  obs.step = "track" /\ obs.pid \in DOMAIN id_mapping => obs.id = id_mapping[obs.pid]

(***************************************************************************)
(* Properties of the command file shared with the dashboard                *)
(***************************************************************************)
\* C35: a command leaves the command file, replaced by another payload or
\* removed, only after the check_admin_commands call in progress has read it.
C35_ReadBeforeGone ==
  [][(command_file # NoFile /\ command_file' # command_file) =>
       loaded_cmd = command_file]_vars

(***************************************************************************)
(* Properties of saving and loading across the two stores                  *)
(***************************************************************************)
\* C36: after a step that saved to the state file, load_occupancy returns the
\* occupancy, entry_count and exit_count of the saved record, whether it finds
\* the remote store reachable or not.
C36_SaveLoadRoundTrip ==
  (obs.step \in {"admin", "track", "key"} /\ state_file # obs.file_pre
     /\ IsRecordFile(state_file)) =>
    \A up \in BOOLEAN :
       LET l == load_occupancy(up, db, state_file)
       IN <<l[1], l[2], l[3]>>
            = <<state_file.occupancy, state_file.entry_count, state_file.exit_count>>

(***************************************************************************)
(* Properties of the lifecycle flags in the saved snapshot                 *)
(***************************************************************************)
\* C37: the snapshot saved when an entry is counted for an id records
\* has_entered for that id, and the one saved when an exit is counted records
\* has_exited.
C37_FlagsFollowCounting ==
  (obs.step = "track" /\ obs.saved # "None") =>
    /\ IsRecordFile(state_file)
    /\ obs.id \in DOMAIN state_file.vehicle_states
    /\ obs.saved = "entry" => state_file.vehicle_states[obs.id].has_entered
    /\ obs.saved = "exit" => state_file.vehicle_states[obs.id].has_exited

(***************************************************************************)
(* Properties of the two containment tests of the plate region             *)
(***************************************************************************)
\* C38: an observer task raises the capture only for a box that overlaps the
\* region in x and in y, and every box it takes as fully inside the region is
\* also partially inside it.
C38_CaptureInsideRegion ==
  obs.step = "observe" =>
    /\ obs.fired => _bbox_partially_inside(obs.vs.bbox)
    /\ _bbox_fully_inside(obs.vs.bbox) => _bbox_partially_inside(obs.vs.bbox)

====
